---- MODULE Spec2Model ----
(***************************************************************************)
(* Model of the editor/history engines of iniLink:                         *)
(*   - useUnifiedEditor (hooks/useUnifiedEditor.ts): the unified tree      *)
(*     editor with whole-tree snapshot history;                            *)
(*   - useIniEditor (hooks/useIniEditor.ts): the INI section/key editor;   *)
(*   - the utilities around them: file validation, parsers, serializers,   *)
(*     the share codec and the ValidationEngine.                           *)
(* Strings that the code concatenates (paths, file names) are sequences of *)
(* tokens, "." being a token of its own, so that `${parent}.${key}` is a   *)
(* real concatenation.  JavaScript values are pairs <<typeof, text>>.      *)
(* Date values (Change.id, Change.timestamp, metadata.lastModified) are    *)
(* not represented.                                                        *)
(***************************************************************************)
EXTENDS Integers, Sequences, FiniteSets, TLC

(* ------------------------------ bounds -------------------------------- *)
\* longest change log an editor is driven to between two loads; a history
\* then holds at most MaxChanges + 1 snapshots
MaxChanges == 2
\* longest history (snapshots) the INI editor is driven to
MaxIniHistory == 3
\* the longest list of validation findings
MaxFindings == 2
\* the longest INI text, in lines
MaxIniLines == 3

(* --------------------------- JavaScript values ------------------------ *)
Null == <<"null", "">>
Undefined == <<"undefined", "">>
Str(s) == <<"string", s>>

\* an optional T (T | null | undefined) is <<>> or <<t>>
None == <<>>
Some(x) == <<x>>

(* --------------------------- fileProcessor.ts ------------------------- *)
BooleanTexts == {"true", "false", "yes", "no", "on", "off", "1", "0"}
NumberTexts == {"1", "0", "8080", "9090"}

inferDataType(value) ==
  IF value = Null \/ value = Undefined THEN "null"
  ELSE IF value[1] = "boolean" THEN "boolean"
  ELSE IF value[1] = "number" THEN "number"
  ELSE IF value[1] = "string" /\ value[2] \in BooleanTexts THEN "boolean"
  ELSE IF value[1] = "string" /\ value[2] \in NumberTexts THEN "number"
  ELSE "string"

\* children is None for a leaf (children: undefined) and Some(seq) otherwise
createUnifiedNode(path, key, value, fileType, children) ==
  [ path |-> path,
    key |-> key,
    value |-> value,
    type |-> inferDataType(value),
    hasChildren |-> children # None,
    children |-> IF children = None THEN <<>> ELSE children[1],
    metadata |-> [ originalFormat |-> fileType,
                   isExpanded |-> TRUE,
                   isModified |-> FALSE,
                   originalValue |-> value ] ]

(* ------------------------------- files -------------------------------- *)
\* a parsed document (the result of JSON.parse / ini.parse):
\* t = "val" (scalar or null, in v), "obj" or "arr" (entries in kids as
\* <<key, document>>)
JVal(v) == [t |-> "val", v |-> v, kids |-> <<>>]
JObj(kids) == [t |-> "obj", v |-> Null, kids |-> kids]
JArr(kids) == [t |-> "arr", v |-> Null, kids |-> kids]

\* file text: wellFormed = FALSE is text the format's parser throws on
Text(doc) == [wellFormed |-> TRUE, doc |-> doc]
Garbage == [wellFormed |-> FALSE, doc |-> JVal(Null)]

JsonFile ==
  [ name |-> <<"f", ".", "json">>, size |-> 64, type |-> "application/json",
    content |-> Text(JObj(<< <<(<<"a">>), JVal(Str("x"))>>,
                             <<(<<"o">>), JObj(<< <<(<<"c">>), JVal(Str("x"))>> >>)>> >>)) ]
IniFile ==
  [ name |-> <<"c", ".", "INI">>, size |-> 32, type |-> "text/plain",
    content |-> Text(JObj(<< <<(<<"s">>), JObj(<< <<(<<"k">>), JVal(Str("x"))>> >>)>> >>)) ]
BrokenFile ==
  [ name |-> <<"m", ".", "json">>, size |-> 16, type |-> "application/json",
    content |-> Garbage ]
HugeFile ==
  [ name |-> <<"h", ".", "json">>, size |-> 10485761, type |-> "application/json",
    content |-> Text(JObj(<<>>)) ]
ExeFile ==
  [ name |-> <<"f", ".", "exe">>, size |-> 64, type |-> "",
    content |-> Text(JObj(<<>>)) ]
Files == {JsonFile, IniFile, BrokenFile, HugeFile, ExeFile}

ToLowerTok(t) ==
  CASE t = "INI" -> "ini"
    [] t = "JSON" -> "json"
    [] t = "XML" -> "xml"
    [] OTHER -> t
toLowerCase(s) == [i \in 1..Len(s) |-> ToLowerTok(s[i])]

\* s.split('.').pop(): the tokens after the last "."
RECURSIVE LastSegment(_)
LastSegment(s) ==
  IF \E i \in 1..Len(s) : s[i] = "."
  THEN LastSegment(Tail(s))
  ELSE s

acceptedTypes == { <<".", "ini">>, <<".", "json">>, <<".", "xml">>,
                   <<".", "txt">>, <<".", "config">> }
maxFileSize == 10 * 1024 * 1024

validateFile(file) ==
  IF file.size > maxFileSize THEN FALSE
  ELSE <<".">> \o LastSegment(toLowerCase(file.name)) \in acceptedTypes

\* the model's file texts contain no <script>, "javascript:" or on...= text
sanitizeInput(content) == content

detectFileType(file) ==
  LET extension == LastSegment(toLowerCase(file.name)) IN
  CASE extension \in { <<"ini">>, <<"cfg">>, <<"conf">>, <<"config">> } -> "ini"
    [] extension = <<"json">> -> "json"
    [] extension = <<"xml">> -> "xml"
    [] OTHER -> IF file.type = "application/json" THEN "json"
                ELSE IF file.type = "application/xml" THEN "xml"
                ELSE "ini"

(* ------------------------------ parsers ------------------------------- *)
IndexTok(i) == <<"[0]", "[1]", "[2]">>[i + 1]

RECURSIVE convertToUnified(_, _, _)
convertToUnified(obj, path, key) ==
  IF obj.t = "val" THEN createUnifiedNode(path, key, obj.v, "json", None)
  ELSE IF obj.t = "arr" THEN
    createUnifiedNode(path, key, Null, "json",
      Some([i \in 1..Len(obj.kids) |->
              convertToUnified(obj.kids[i][2],
                               path \o <<IndexTok(i - 1)>>,
                               <<IndexTok(i - 1)>>)]))
  ELSE
    createUnifiedNode(path, key, Null, "json",
      Some([i \in 1..Len(obj.kids) |->
              convertToUnified(obj.kids[i][2],
                               IF path # <<>> THEN path \o <<".">> \o obj.kids[i][1]
                                              ELSE obj.kids[i][1],
                               obj.kids[i][1])]))

parseJsonContent(doc, filename) == convertToUnified(doc, filename, filename)

IsSection(entry) == entry[2].t # "val"

parseIniContent(parsed, filename) ==
  LET scalars == SelectSeq(parsed.kids, LAMBDA e : ~IsSection(e))
      objects == SelectSeq(parsed.kids, IsSection)
      rootKeys == [i \in 1..Len(scalars) |->
                     createUnifiedNode(scalars[i][1], scalars[i][1],
                                       scalars[i][2].v, "ini", None)]
      rootPart == IF Len(rootKeys) > 0
                  THEN << createUnifiedNode(<<"root">>, <<"Root">>, Null, "ini",
                                            Some(rootKeys)) >>
                  ELSE <<>>
      sections == [i \in 1..Len(objects) |->
                     LET sectionName == objects[i][1]
                         sectionData == objects[i][2] IN
                     createUnifiedNode(sectionName, sectionName, Null, "ini",
                       Some([j \in 1..Len(sectionData.kids) |->
                               createUnifiedNode(
                                 sectionName \o <<".">> \o sectionData.kids[j][1],
                                 sectionData.kids[j][1],
                                 sectionData.kids[j][2].v, "ini", None)]))]
  IN createUnifiedNode(filename, filename, Null, "ini",
                       Some(rootPart \o sections))

\* FileProcessor.parseContent: None when the parser throws
parseContent(content, fileType, filename) ==
  IF ~content.wellFormed THEN None
  ELSE IF fileType = "json" THEN Some(parseJsonContent(content.doc, filename))
  ELSE Some(parseIniContent(content.doc, filename))

(* -------------------- useUnifiedEditor: tree helpers ------------------ *)
\* first node with the given path in pre-order, None (null) when absent
RECURSIVE findNodeByPath(_, _)
RECURSIVE findInChildren(_, _, _)
findInChildren(children, i, path) ==
  IF i > Len(children) THEN None
  ELSE LET found == findNodeByPath(children[i], path) IN
       IF found # None THEN found ELSE findInChildren(children, i + 1, path)
findNodeByPath(root, path) ==
  IF root.path = path THEN Some(root)
  ELSE IF root.hasChildren THEN findInChildren(root.children, 1, path)
  ELSE None

\* mutant of updateNodeRecursive: marks the node modified whatever the value
RECURSIVE updateNodeRecursiveAlwaysModified(_, _, _)
updateNodeRecursiveAlwaysModified(node, path, newValue) ==
  IF node.path = path THEN
    [node EXCEPT !.value = newValue, !.metadata.isModified = TRUE]
  ELSE IF node.hasChildren THEN
    [node EXCEPT !.children =
       [i \in 1..Len(node.children) |->
          updateNodeRecursiveAlwaysModified(node.children[i], path, newValue)]]
  ELSE node

RECURSIVE updateNodeRecursive(_, _, _)
updateNodeRecursive(node, path, newValue) ==
  IF node.path = path THEN
    [node EXCEPT !.value = newValue,
                 !.metadata.isModified = (node.metadata.originalValue # newValue)]
  ELSE IF node.hasChildren THEN
    [node EXCEPT !.children =
       [i \in 1..Len(node.children) |->
          updateNodeRecursive(node.children[i], path, newValue)]]
  ELSE node

\* newNode of addNode: no isExpanded, isModified true, originalValue null
NewNode(newPath, key, value, type, fileType) ==
  [ path |-> newPath,
    key |-> key,
    value |-> value,
    type |-> type,
    hasChildren |-> FALSE,
    children |-> <<>>,
    metadata |-> [ originalFormat |-> fileType,
                   isExpanded |-> FALSE,
                   isModified |-> TRUE,
                   originalValue |-> Null ] ]

RECURSIVE addNodeRecursive(_, _, _)
addNodeRecursive(node, parentPath, newNode) ==
  IF node.path = parentPath THEN
    [node EXCEPT !.hasChildren = TRUE,
                 !.children = Append(node.children, newNode)]
  ELSE IF node.hasChildren THEN
    [node EXCEPT !.children =
       [i \in 1..Len(node.children) |->
          addNodeRecursive(node.children[i], parentPath, newNode)]]
  ELSE node

RECURSIVE deleteNodeRecursive(_, _)
deleteNodeRecursive(node, path) ==
  IF node.hasChildren THEN
    LET kept == SelectSeq(node.children, LAMBDA child : child.path # path) IN
    [node EXCEPT !.children =
       [i \in 1..Len(kept) |-> deleteNodeRecursive(kept[i], path)]]
  ELSE node

\* mutant of PushHistory: pushes without dropping the snapshots after index
PushHistoryKeepsTail(hist, index, content) == Append(hist, content)

\* history.slice(0, historyIndex + 1) followed by push(content)
PushHistory(hist, index, content) == Append(SubSeq(hist, 1, index + 1), content)

\* the paths of all nodes of a tree
RECURSIVE NodePaths(_)
NodePaths(node) ==
  {node.path} \cup UNION { NodePaths(node.children[i]) : i \in 1..Len(node.children) }

(* ------------------- useUnifiedEditor: state updaters ----------------- *)
\* Each operator is the function a handler passes to setState: it maps the
\* previous EditorState to the next one.
InitialEditorState ==
  [ currentFile |-> None,
    selectedNode |-> None,
    changeHistory |-> <<>>,
    isModified |-> FALSE,
    searchQuery |-> "",
    expandedPaths |-> {},
    history |-> <<>>,
    historyIndex |-> -1 ]

Content(st) == st.currentFile[1].content

\* mutant of loadFileState: keeps the change log and the selection
loadFileStateKeepsLog(prev, file, parsedContent) ==
  [ prev EXCEPT
      !.currentFile = Some([ type |-> detectFileType(file),
                             content |-> parsedContent,
                             originalContent |-> sanitizeInput(file.content),
                             filename |-> file.name ]),
      !.isModified = FALSE,
      !.expandedPaths = {parsedContent.path},
      !.history = <<parsedContent>>,
      !.historyIndex = 0 ]

\* the setState at the end of a loadFile whose parse produced parsedContent
loadFileState(prev, file, parsedContent) ==
  [ prev EXCEPT
      !.currentFile = Some([ type |-> detectFileType(file),
                             content |-> parsedContent,
                             originalContent |-> sanitizeInput(file.content),
                             filename |-> file.name ]),
      !.changeHistory = <<>>,
      !.selectedNode = None,
      !.isModified = FALSE,
      !.expandedPaths = {parsedContent.path},
      !.history = <<parsedContent>>,
      !.historyIndex = 0 ]

Change(path, oldValue, newValue, comment, type) ==
  [ path |-> path, oldValue |-> oldValue, newValue |-> newValue,
    comment |-> comment, type |-> type ]

\* mutant of updateNode: pushes the snapshot without advancing historyIndex
updateNodeKeepsIndex(prev, path, newValue, comment) ==
  IF prev.currentFile = None THEN prev
  ELSE
    LET updatedContent == updateNodeRecursive(Content(prev), path, newValue)
        found == findNodeByPath(Content(prev), path)
        change == Change(path,
                         IF found = None THEN Undefined ELSE found[1].value,
                         newValue, comment, "modify")
        newHistory == PushHistory(prev.history, prev.historyIndex, updatedContent)
    IN [ prev EXCEPT
           !.currentFile = Some([prev.currentFile[1] EXCEPT !.content = updatedContent]),
           !.changeHistory = Append(prev.changeHistory, change),
           !.isModified = TRUE,
           !.history = newHistory ]

updateNode(prev, path, newValue, comment) ==
  IF prev.currentFile = None THEN prev
  ELSE
    LET updatedContent == updateNodeRecursive(Content(prev), path, newValue)
        found == findNodeByPath(Content(prev), path)
        change == Change(path,
                         IF found = None THEN Undefined ELSE found[1].value,
                         newValue, comment, "modify")
        newHistory == PushHistory(prev.history, prev.historyIndex, updatedContent)
    IN [ prev EXCEPT
           !.currentFile = Some([prev.currentFile[1] EXCEPT !.content = updatedContent]),
           !.changeHistory = Append(prev.changeHistory, change),
           !.isModified = TRUE,
           !.history = newHistory,
           !.historyIndex = Len(newHistory) - 1 ]

addNode(prev, parentPath, key, value, type) ==
  IF prev.currentFile = None THEN prev
  ELSE
    LET newPath == IF parentPath # <<>> THEN parentPath \o <<".">> \o key ELSE key
        newNode == NewNode(newPath, key, value, type, prev.currentFile[1].type)
        updatedContent == addNodeRecursive(Content(prev), parentPath, newNode)
        change == Change(newPath, Null, value, None, "add")
        newHistory == PushHistory(prev.history, prev.historyIndex, updatedContent)
    IN [ prev EXCEPT
           !.currentFile = Some([prev.currentFile[1] EXCEPT !.content = updatedContent]),
           !.changeHistory = Append(prev.changeHistory, change),
           !.isModified = TRUE,
           !.history = newHistory,
           !.historyIndex = Len(newHistory) - 1 ]

\* mutant of deleteNode: no early return when the path is not found
deleteNodeUnchecked(prev, path) ==
  IF prev.currentFile = None THEN prev
  ELSE
    LET nodeToDelete == findNodeByPath(Content(prev), path)
        updatedContent == deleteNodeRecursive(Content(prev), path)
        change == Change(path,
                         IF nodeToDelete = None THEN Undefined
                         ELSE nodeToDelete[1].value,
                         Null, None, "delete")
        newHistory == PushHistory(prev.history, prev.historyIndex, updatedContent)
    IN [ prev EXCEPT
           !.currentFile = Some([prev.currentFile[1] EXCEPT !.content = updatedContent]),
           !.changeHistory = Append(prev.changeHistory, change),
           !.isModified = TRUE,
           !.selectedNode = IF prev.selectedNode = Some(path) THEN None
                            ELSE prev.selectedNode,
           !.history = newHistory,
           !.historyIndex = Len(newHistory) - 1 ]

\* mutant of deleteNode: leaves the selection as it was
deleteNodeKeepsSelection(prev, path) ==
  IF prev.currentFile = None THEN prev
  ELSE
    LET nodeToDelete == findNodeByPath(Content(prev), path) IN
    IF nodeToDelete = None THEN prev
    ELSE
      LET updatedContent == deleteNodeRecursive(Content(prev), path)
          change == Change(path, nodeToDelete[1].value, Null, None, "delete")
          newHistory == PushHistory(prev.history, prev.historyIndex, updatedContent)
      IN [ prev EXCEPT
             !.currentFile = Some([prev.currentFile[1] EXCEPT !.content = updatedContent]),
             !.changeHistory = Append(prev.changeHistory, change),
             !.isModified = TRUE,
             !.history = newHistory,
             !.historyIndex = Len(newHistory) - 1 ]

deleteNode(prev, path) ==
  IF prev.currentFile = None THEN prev
  ELSE
    LET nodeToDelete == findNodeByPath(Content(prev), path) IN
    IF nodeToDelete = None THEN prev
    ELSE
      LET updatedContent == deleteNodeRecursive(Content(prev), path)
          change == Change(path, nodeToDelete[1].value, Null, None, "delete")
          newHistory == PushHistory(prev.history, prev.historyIndex, updatedContent)
      IN [ prev EXCEPT
             !.currentFile = Some([prev.currentFile[1] EXCEPT !.content = updatedContent]),
             !.changeHistory = Append(prev.changeHistory, change),
             !.isModified = TRUE,
             !.selectedNode = IF prev.selectedNode = Some(path) THEN None
                              ELSE prev.selectedNode,
             !.history = newHistory,
             !.historyIndex = Len(newHistory) - 1 ]

selectNode(prev, path) == [prev EXCEPT !.selectedNode = path]

\* mutant of undo: always clears isModified
undoClearsModified(prev) ==
  IF prev.historyIndex > 0 THEN
    LET newIndex == prev.historyIndex - 1
        content == prev.history[newIndex + 1]
    IN [ prev EXCEPT
           !.currentFile = IF prev.currentFile # None
                           THEN Some([prev.currentFile[1] EXCEPT !.content = content])
                           ELSE None,
           !.historyIndex = newIndex,
           !.isModified = FALSE ]
  ELSE prev

\* mutant of undo: restores the snapshot at the old index
undoStaleSnapshot(prev) ==
  IF prev.historyIndex > 0 THEN
    LET newIndex == prev.historyIndex - 1
        content == prev.history[prev.historyIndex + 1]
    IN [ prev EXCEPT
           !.currentFile = IF prev.currentFile # None
                           THEN Some([prev.currentFile[1] EXCEPT !.content = content])
                           ELSE None,
           !.historyIndex = newIndex,
           !.isModified = (newIndex > 0) ]
  ELSE prev

\* mutant of undo: takes the last record off the change log
undoDropsChange(prev) ==
  IF prev.historyIndex > 0 THEN
    LET newIndex == prev.historyIndex - 1
        content == prev.history[newIndex + 1]
    IN [ prev EXCEPT
           !.currentFile = IF prev.currentFile # None
                           THEN Some([prev.currentFile[1] EXCEPT !.content = content])
                           ELSE None,
           !.changeHistory = SubSeq(prev.changeHistory, 1,
                                    Len(prev.changeHistory) - 1),
           !.historyIndex = newIndex,
           !.isModified = (newIndex > 0) ]
  ELSE prev

undo(prev) ==
  IF prev.historyIndex > 0 THEN
    LET newIndex == prev.historyIndex - 1
        content == prev.history[newIndex + 1]
    IN [ prev EXCEPT
           !.currentFile = IF prev.currentFile # None
                           THEN Some([prev.currentFile[1] EXCEPT !.content = content])
                           ELSE None,
           !.historyIndex = newIndex,
           !.isModified = (newIndex > 0) ]
  ELSE prev

\* mutant of redo: leaves isModified as it was
redoKeepsModified(prev) ==
  IF prev.historyIndex < Len(prev.history) - 1 THEN
    LET newIndex == prev.historyIndex + 1
        content == prev.history[newIndex + 1]
    IN [ prev EXCEPT
           !.currentFile = IF prev.currentFile # None
                           THEN Some([prev.currentFile[1] EXCEPT !.content = content])
                           ELSE None,
           !.historyIndex = newIndex ]
  ELSE prev

\* mutant of redo: moves the index without restoring the snapshot
redoIndexOnly(prev) ==
  IF prev.historyIndex < Len(prev.history) - 1 THEN
    [ prev EXCEPT !.historyIndex = prev.historyIndex + 1,
                  !.isModified = TRUE ]
  ELSE prev

redo(prev) ==
  IF prev.historyIndex < Len(prev.history) - 1 THEN
    LET newIndex == prev.historyIndex + 1
        content == prev.history[newIndex + 1]
    IN [ prev EXCEPT
           !.currentFile = IF prev.currentFile # None
                           THEN Some([prev.currentFile[1] EXCEPT !.content = content])
                           ELSE None,
           !.historyIndex = newIndex,
           !.isModified = TRUE ]
  ELSE prev

reset == InitialEditorState

(* ----------------------------- useIniEditor --------------------------- *)
\* INI strings are TLA+ strings; IniKey.comment is None (undefined) or Some.
iniInferType(value) ==
  IF value \in {"true", "yes", "on", "t", "no", "n", "TRUE", "NO", "T", "N"}
  THEN "boolean"
  ELSE IF value \in NumberTexts THEN "number"
  ELSE "string"

\* a name of the model's parsed INI objects, as the string the editor shows
NameText(tokens) == tokens[1]

\* one key of a section, as parseIniFile builds it from an entry of the
\* parsed object
IniKeyOf(entry, sectionName) ==
  LET value == entry[2].v[2] IN
  [ key |-> NameText(entry[1]),
    value |-> value,
    originalValue |-> value,
    section |-> sectionName,
    type |-> iniInferType(value),
    isModified |-> FALSE,
    comment |-> None ]

\* the sections parseIniFile builds from ini.parse's object: the keys
\* outside a section as a first section named Root, then the sections
parseIniSections(parsed) ==
  LET scalars == SelectSeq(parsed.kids, LAMBDA e : ~IsSection(e))
      objects == SelectSeq(parsed.kids, IsSection)
      rootKeys == [j \in 1..Len(scalars) |-> IniKeyOf(scalars[j], "")]
      rootPart == IF Len(rootKeys) > 0
                  THEN << [ name |-> "Root", keys |-> rootKeys,
                            isExpanded |-> TRUE ] >>
                  ELSE <<>>
  IN rootPart \o
     [i \in 1..Len(objects) |->
        LET sectionName == NameText(objects[i][1])
            sectionData == objects[i][2] IN
        [ name |-> sectionName,
          keys |-> [j \in 1..Len(sectionData.kids) |->
                      IniKeyOf(sectionData.kids[j], sectionName)],
          isExpanded |-> TRUE ]]

IniFinding(type, severity, section, key) ==
  [type |-> type, severity |-> severity, section |-> section, key |-> key]

\* the duplicate_key findings of one Object.entries loop: an entry whose
\* key the loop has already seen (rootKeyNames / sectionKeyNames)
RECURSIVE DuplicateKeyFindings(_, _, _)
DuplicateKeyFindings(entries, seen, sectionName) ==
  IF entries = <<>> THEN <<>>
  ELSE LET key == NameText(Head(entries)[1]) IN
       (IF key \in seen
        THEN << IniFinding("duplicate_key", "error", sectionName, key) >>
        ELSE <<>>)
       \o DuplicateKeyFindings(Tail(entries), seen \cup {key}, sectionName)

\* validateSectionName on the model's names (none is empty or has brackets)
validateSectionName(sectionName) ==
  IF sectionName \in {"DEFAULT", "GLOBAL", "ROOT", "Root", "root"}
  THEN << IniFinding("reserved_word", "warning", sectionName, "") >>
  ELSE <<>>

\* the findings of the loop over the sections
RECURSIVE SectionFindings(_)
SectionFindings(objects) ==
  IF objects = <<>> THEN <<>>
  ELSE LET sectionName == NameText(Head(objects)[1]) IN
       validateSectionName(sectionName)
       \o DuplicateKeyFindings(Head(objects)[2].kids, {}, sectionName)
       \o SectionFindings(Tail(objects))

\* parseIniFile's validationErrors.  The model's texts are made of section
\* headers and key=value lines with plain names and values, for which
\* validateIniSyntax, validateKeyName and validateValueType find nothing.
parseIniFindings(parsed) ==
  DuplicateKeyFindings(SelectSeq(parsed.kids, LAMBDA e : ~IsSection(e)), {}, "")
  \o SectionFindings(SelectSeq(parsed.kids, IsSection))

parseIniFile(content, filename) ==
  [ sections |-> parseIniSections(content.doc),
    raw |-> content.doc,
    filename |-> filename,
    validationErrors |-> parseIniFindings(content.doc) ]

InitialIniState ==
  [ data |-> None,
    changes |-> <<>>,
    selectedKey |-> None,
    searchQuery |-> "",
    isDirty |-> FALSE,
    history |-> <<>>,
    historyIndex |-> -1 ]

IniChange(section, key, oldValue, newValue, comment, type) ==
  [ section |-> section, key |-> key, oldValue |-> oldValue,
    newValue |-> newValue, comment |-> comment, type |-> type ]

\* index (from 1) of the first element of seq satisfying Test, 0 when none
FindIndex(seq, Test(_)) ==
  IF \E i \in 1..Len(seq) : Test(seq[i])
  THEN CHOOSE i \in 1..Len(seq) :
         Test(seq[i]) /\ \A j \in 1..(i - 1) : ~Test(seq[j])
  ELSE 0

RemoveAt(seq, i) == SubSeq(seq, 1, i - 1) \o SubSeq(seq, i + 1, Len(seq))

\* sections.find(s => s.name === section)?.keys.find(k => k.key === key)
FindKey(data, section, key) ==
  LET si == FindIndex(data.sections, LAMBDA sec : sec.name = section) IN
  IF si = 0 THEN None
  ELSE LET ki == FindIndex(data.sections[si].keys, LAMBDA k : k.key = key) IN
       IF ki = 0 THEN None ELSE Some(data.sections[si].keys[ki])

IniData(st) == st.data[1]

\* the tail shared by the mutating handlers: data, changes, isDirty, history
IniCommit(prev, newData, newChanges, isDirty, selectedKey) ==
  LET newHistory == PushHistory(prev.history, prev.historyIndex, newData) IN
  [ prev EXCEPT !.data = Some(newData),
                !.changes = newChanges,
                !.isDirty = isDirty,
                !.selectedKey = selectedKey,
                !.history = newHistory,
                !.historyIndex = Len(newHistory) - 1 ]

iniLoadFile(prev, file) ==
  LET data == parseIniFile(file.content, NameText(file.name)) IN
  [ prev EXCEPT !.data = Some(data),
                !.changes = <<>>,
                !.selectedKey = None,
                !.isDirty = FALSE,
                !.history = <<data>>,
                !.historyIndex = 0 ]

updateKey(prev, section, key, newValue, comment) ==
  IF prev.data = None THEN prev
  ELSE
    LET old == IniData(prev)
        newData ==
          [old EXCEPT !.sections =
             [i \in 1..Len(old.sections) |->
                LET sec == old.sections[i] IN
                IF sec.name = section
                THEN [sec EXCEPT !.keys =
                        [j \in 1..Len(sec.keys) |->
                           LET k == sec.keys[j] IN
                           IF k.key = key
                           THEN [k EXCEPT
                                   !.value = newValue,
                                   !.isModified = (k.originalValue # newValue),
                                   !.comment = IF k.originalValue # newValue
                                               THEN comment ELSE None]
                           ELSE k]]
                ELSE sec]]
        existingChangeIndex ==
          FindIndex(prev.changes, LAMBDA c : c.section = section /\ c.key = key)
        targetKey == FindKey(newData, section, key)
        newChanges ==
          IF targetKey # None /\ targetKey[1].isModified
          THEN LET change == IniChange(section, key, targetKey[1].originalValue,
                                       newValue, comment, "modify") IN
               IF existingChangeIndex > 0
               THEN [prev.changes EXCEPT ![existingChangeIndex] = change]
               ELSE Append(prev.changes, change)
          ELSE IF existingChangeIndex > 0
          THEN RemoveAt(prev.changes, existingChangeIndex)
          ELSE prev.changes
    IN IniCommit(prev, newData, newChanges, Len(newChanges) > 0, prev.selectedKey)

addSection(prev, sectionName) ==
  IF prev.data = None
     \/ \E i \in 1..Len(IniData(prev).sections) :
          IniData(prev).sections[i].name = sectionName
  THEN prev
  ELSE
    LET old == IniData(prev)
        newSection == [name |-> sectionName, keys |-> <<>>, isExpanded |-> TRUE]
        newData == [old EXCEPT !.sections = Append(old.sections, newSection)]
        change == IniChange(sectionName, "", "", "", None, "add_section")
    IN IniCommit(prev, newData, Append(prev.changes, change), TRUE, prev.selectedKey)

SectionWithKeys(n) ==
  << "Section with 0 keys", "Section with 1 keys", "Section with 2 keys",
     "Section with 3 keys", "Section with 4 keys", "Section with 5 keys",
     "Section with 6 keys" >>[n + 1]

deleteSection(prev, sectionName) ==
  IF prev.data = None THEN prev
  ELSE
    LET old == IniData(prev)
        si == FindIndex(old.sections, LAMBDA sec : sec.name = sectionName) IN
    IF si = 0 THEN prev
    ELSE
      LET newData == [old EXCEPT !.sections =
                        SelectSeq(old.sections, LAMBDA sec : sec.name # sectionName)]
          change == IniChange(sectionName, "",
                              SectionWithKeys(Len(old.sections[si].keys)),
                              "", None, "delete_section")
      IN IniCommit(prev, newData, Append(prev.changes, change), TRUE,
                   IF prev.selectedKey # None /\ prev.selectedKey[1].section = sectionName
                   THEN None ELSE prev.selectedKey)

renameSection(prev, oldName, newName) ==
  IF prev.data = None
     \/ ~\E i \in 1..Len(IniData(prev).sections) :
           IniData(prev).sections[i].name = oldName
  THEN prev
  ELSE
    LET old == IniData(prev)
        newData ==
          [old EXCEPT !.sections =
             [i \in 1..Len(old.sections) |->
                LET sec == old.sections[i] IN
                IF sec.name = oldName
                THEN [sec EXCEPT
                        !.name = newName,
                        !.keys = [j \in 1..Len(sec.keys) |->
                                    [sec.keys[j] EXCEPT !.section = newName]]]
                ELSE sec]]
        change == IniChange(newName, "", oldName, newName, None, "modify")
    IN IniCommit(prev, newData, Append(prev.changes, change), TRUE,
                 IF prev.selectedKey # None /\ prev.selectedKey[1].section = oldName
                 THEN Some([prev.selectedKey[1] EXCEPT !.section = newName])
                 ELSE prev.selectedKey)

\* mutant of addKey: no early return when the section already has the key
addKeyUnchecked(prev, section, key, value, type) ==
  IF prev.data = None THEN prev
  ELSE
    LET old == IniData(prev)
        si == FindIndex(old.sections, LAMBDA sec : sec.name = section) IN
    IF si = 0 THEN prev
    ELSE
      LET newKey == [ key |-> key, value |-> value, originalValue |-> "",
                      section |-> section, type |-> type, isModified |-> TRUE,
                      comment |-> None ]
          newData ==
            [old EXCEPT !.sections =
               [i \in 1..Len(old.sections) |->
                  LET sec == old.sections[i] IN
                  IF sec.name = section
                  THEN [sec EXCEPT !.keys = Append(sec.keys, newKey)]
                  ELSE sec]]
          change == IniChange(section, key, "", value, None, "add")
      IN IniCommit(prev, newData, Append(prev.changes, change), TRUE, prev.selectedKey)

addKey(prev, section, key, value, type) ==
  IF prev.data = None THEN prev
  ELSE
    LET old == IniData(prev)
        si == FindIndex(old.sections, LAMBDA sec : sec.name = section) IN
    IF si = 0 THEN prev
    ELSE IF \E j \in 1..Len(old.sections[si].keys) :
              old.sections[si].keys[j].key = key
    THEN prev
    ELSE
      LET newKey == [ key |-> key, value |-> value, originalValue |-> "",
                      section |-> section, type |-> type, isModified |-> TRUE,
                      comment |-> None ]
          newData ==
            [old EXCEPT !.sections =
               [i \in 1..Len(old.sections) |->
                  LET sec == old.sections[i] IN
                  IF sec.name = section
                  THEN [sec EXCEPT !.keys = Append(sec.keys, newKey)]
                  ELSE sec]]
          change == IniChange(section, key, "", value, None, "add")
      IN IniCommit(prev, newData, Append(prev.changes, change), TRUE, prev.selectedKey)

deleteKey(prev, section, key) ==
  IF prev.data = None THEN prev
  ELSE
    LET old == IniData(prev)
        keyToDelete == FindKey(old, section, key) IN
    IF keyToDelete = None THEN prev
    ELSE
      LET newData ==
            [old EXCEPT !.sections =
               [i \in 1..Len(old.sections) |->
                  LET sec == old.sections[i] IN
                  IF sec.name = section
                  THEN [sec EXCEPT !.keys =
                          SelectSeq(sec.keys, LAMBDA k : k.key # key)]
                  ELSE sec]]
          change == IniChange(section, key, keyToDelete[1].value, "", None, "delete")
      IN IniCommit(prev, newData, Append(prev.changes, change), TRUE,
                   IF /\ prev.selectedKey # None
                      /\ prev.selectedKey[1].key = key
                      /\ prev.selectedKey[1].section = section
                   THEN None ELSE prev.selectedKey)

renameKey(prev, section, oldKey, newKey) ==
  IF prev.data = None THEN prev
  ELSE
    LET old == IniData(prev)
        keyToRename == FindKey(old, section, oldKey) IN
    IF keyToRename = None THEN prev
    ELSE
      LET newData ==
            [old EXCEPT !.sections =
               [i \in 1..Len(old.sections) |->
                  LET sec == old.sections[i] IN
                  IF sec.name = section
                  THEN [sec EXCEPT !.keys =
                          [j \in 1..Len(sec.keys) |->
                             IF sec.keys[j].key = oldKey
                             THEN [sec.keys[j] EXCEPT !.key = newKey,
                                                      !.isModified = TRUE]
                             ELSE sec.keys[j]]]
                  ELSE sec]]
          change == IniChange(section, newKey, oldKey, newKey, None, "modify")
      IN IniCommit(prev, newData, Append(prev.changes, change), TRUE,
                   IF /\ prev.selectedKey # None
                      /\ prev.selectedKey[1].key = oldKey
                      /\ prev.selectedKey[1].section = section
                   THEN Some([prev.selectedKey[1] EXCEPT !.key = newKey])
                   ELSE prev.selectedKey)

\* the changes undo and redo recompute from a snapshot: one per modified key
RECURSIVE ModifiedKeyChanges(_, _)
ModifiedKeyChanges(section, keys) ==
  IF keys = <<>> THEN <<>>
  ELSE (IF Head(keys).isModified
        THEN << IniChange(section.name, Head(keys).key, Head(keys).originalValue,
                          Head(keys).value, Head(keys).comment, "modify") >>
        ELSE <<>>) \o ModifiedKeyChanges(section, Tail(keys))

RECURSIVE RecalculateChanges(_)
RecalculateChanges(sections) ==
  IF sections = <<>> THEN <<>>
  ELSE ModifiedKeyChanges(Head(sections), Head(sections).keys)
         \o RecalculateChanges(Tail(sections))

iniUndo(prev) ==
  IF prev.historyIndex > 0 THEN
    LET newIndex == prev.historyIndex - 1
        data == prev.history[newIndex + 1]
        changes == RecalculateChanges(data.sections)
    IN [ prev EXCEPT !.data = Some(data),
                     !.changes = changes,
                     !.isDirty = Len(changes) > 0,
                     !.historyIndex = newIndex ]
  ELSE prev

iniRedo(prev) ==
  IF prev.historyIndex < Len(prev.history) - 1 THEN
    LET newIndex == prev.historyIndex + 1
        data == prev.history[newIndex + 1]
        changes == RecalculateChanges(data.sections)
    IN [ prev EXCEPT !.data = Some(data),
                     !.changes = changes,
                     !.isDirty = Len(changes) > 0,
                     !.historyIndex = newIndex ]
  ELSE prev

iniReset == InitialIniState

(* ------------------------- the unified editor ------------------------- *)
VARIABLES
  state,     \* useUnifiedEditor's EditorState
  lastOp,    \* the handler that ran last, with its arguments
  run,       \* bookkeeping of the current mutate / undo / redo sequence
  iniState,  \* useIniEditor's EditorState
  iniLastOp, \* the useIniEditor handler that ran last, with its arguments
  call,      \* a function of the utilities and the arguments it is called with
  result,    \* what that call returned, None before it returns
  page,      \* the page at startup: its URL, App's error and isSharedFile
  rules,     \* the ValidationEngine's rules: for each path, its rules in order
  pending    \* the loadFile calls that have not run to their end yet

vars ==
  <<state, lastOp, run, iniState, iniLastOp, call, result, page, rules, pending>>
iniVars == <<iniState, iniLastOp>>
utilVars == <<call, result, page, rules, pending>>

\* Inputs of the handlers.  A path of one file's tree is a path that the
\* other file's tree does not have.
JsonLeaf == <<"f", ".", "json", ".", "a">>
IniLeaf == <<"s", ".", "k">>
UpdatePaths == {JsonLeaf, IniLeaf}
DeletePaths == {JsonLeaf, IniLeaf}
AddParents == {<<"f", ".", "json">>, <<"s">>}
NewKeys == {<<"a">>, <<"k">>}
Values == {Str("x"), Str("y")}
SelectPaths == {JsonLeaf, IniLeaf}

\* calls: the functions a loadFile call went through (empty for the others);
\* selected: state.selectedNode when deleteNode was called (None for the
\* others)
Op(op, path, key, value) ==
  [ op |-> op, path |-> path, key |-> key, value |-> value, calls |-> <<>>,
    selected |-> None ]

IniOp(op, section, key, value) ==
  [op |-> op, section |-> section, key |-> key, value |-> value]

\* room left for one more change record
CanGrow == Len(state.changeHistory) < MaxChanges

\* loadFile from the call to its last statement: validateFile, file.text(),
\* sanitizeInput, detectFileType, parseContent, setState.  The editor state
\* is read and written by the final setState only; every earlier exit throws.
\* mutant of loadFileRun: parses before it validates
loadFileRunParsesFirst(prev, file) ==
  LET sanitizedContent == sanitizeInput(file.content)
      fileType == detectFileType(file)
      parsedContent == parseContent(sanitizedContent, fileType, file.name)
  IN IF parsedContent = None \/ ~validateFile(file)
     THEN [ state |-> prev,
            calls |-> <<"sanitizeInput", "detectFileType", "parseContent",
                        "validateFile">> ]
     ELSE [ state |-> loadFileState(prev, file, parsedContent[1]),
            calls |-> <<"sanitizeInput", "detectFileType", "parseContent",
                        "validateFile", "setState">> ]

\* one run of loadFile: the state it leaves and the calls it made, in order
loadFileRun(prev, file) ==
  IF ~validateFile(file)
  THEN [ state |-> prev, calls |-> <<"validateFile">> ]
  ELSE
    LET sanitizedContent == sanitizeInput(file.content)
        fileType == detectFileType(file)
        parsedContent == parseContent(sanitizedContent, fileType, file.name)
    IN IF parsedContent = None
       THEN [ state |-> prev,
              calls |-> <<"validateFile", "sanitizeInput", "detectFileType",
                          "parseContent">> ]
       ELSE [ state |-> loadFileState(prev, file, parsedContent[1]),
              calls |-> <<"validateFile", "sanitizeInput", "detectFileType",
                          "parseContent", "setState">> ]

loadFile(prev, file) == loadFileRun(prev, file).state

LoadFileStep(file) == state' = loadFile(state, file)
UpdateNodeStep(path, newValue) ==
  CanGrow /\ state' = updateNode(state, path, newValue, None)
AddNodeStep(parentPath, key, value, type) ==
  CanGrow /\ state' = addNode(state, parentPath, key, value, type)
DeleteNodeStep(path) == CanGrow /\ state' = deleteNode(state, path)
UndoStep == state' = undo(state)
RedoStep == state' = redo(state)
ResetStep == state' = reset

\* the paths rules are registered for, and the engine's empty rule map
RulePaths == {JsonLeaf, <<"f", ".", "json", ".", "o", ".", "c">>}
NoRules == [p \in RulePaths |-> <<>>]

\* both editors as constructed, with the ValidationEngine of the unified one
EditorInit ==
  /\ state = InitialEditorState
  /\ lastOp = Op("init", <<>>, <<>>, Null)
  /\ run = [ phase |-> "none", fromLoad |-> FALSE, nMut |-> 0, nUndo |-> 0,
             nRedo |-> 0, loaded |-> None, afterMut |-> None ]
  /\ iniState = InitialIniState
  /\ iniLastOp = IniOp("init", "", "", "")
  /\ rules = NoRules
  /\ pending = <<>>

\* no utility call under way
NoCall == [fn |-> "none"]
\* a page opened without a query string
PlainPage == [pc |-> "idle"]

Init ==
  /\ EditorInit
  /\ call = NoCall
  /\ result = None
  /\ page = PlainPage

LoadFile ==
  \E file \in Files :
    /\ LoadFileStep(file)
    /\ lastOp' = [ Op("loadFile", file.name, <<>>, Null)
                     EXCEPT !.calls = loadFileRun(state, file).calls ]
    /\ UNCHANGED <<run, iniVars, utilVars>>

UpdateNode ==
  \E path \in UpdatePaths, newValue \in Values :
    /\ UpdateNodeStep(path, newValue)
    /\ lastOp' = Op("updateNode", path, <<>>, newValue)
    /\ UNCHANGED <<run, iniVars, utilVars>>

AddNode ==
  \E parentPath \in AddParents, key \in NewKeys :
    /\ AddNodeStep(parentPath, key, Str("y"), "string")
    /\ lastOp' = Op("addNode", parentPath, key, Str("y"))
    /\ UNCHANGED <<run, iniVars, utilVars>>

DeleteNode ==
  \E path \in DeletePaths :
    /\ DeleteNodeStep(path)
    /\ lastOp' = [ Op("deleteNode", path, <<>>, Null)
                     EXCEPT !.selected = state.selectedNode ]
    /\ UNCHANGED <<run, iniVars, utilVars>>

SelectNode ==
  \E sel \in {None} \cup { Some(p) : p \in SelectPaths } :
    /\ state' = selectNode(state, sel)
    /\ lastOp' = Op("selectNode", <<>>, <<>>, Null)
    /\ UNCHANGED <<run, iniVars, utilVars>>

Undo ==
  /\ UndoStep
  /\ lastOp' = Op("undo", <<>>, <<>>, Null)
  /\ UNCHANGED <<run, iniVars, utilVars>>

Redo ==
  /\ RedoStep
  /\ lastOp' = Op("redo", <<>>, <<>>, Null)
  /\ UNCHANGED <<run, iniVars, utilVars>>

Reset ==
  /\ ResetStep
  /\ lastOp' = Op("reset", <<>>, <<>>, Null)
  /\ UNCHANGED <<run, iniVars, utilVars>>

Next ==
  \/ LoadFile
  \/ UpdateNode
  \/ AddNode
  \/ DeleteNode
  \/ SelectNode
  \/ Undo
  \/ Redo
  \/ Reset

Spec == Init /\ [][Next]_vars

(* ---------- the unified editor, with mutate/undo/redo bookkeeping ------ *)
\* HistSpec runs the same handlers and records in `run` where the editor is
\* in a sequence "mutations, then undos, then redos":
\*   phase     what the last of these calls was ("mut" also right after a load)
\*   fromLoad  the mutations of this sequence started at a load
\*   nMut      calls of updateNode/addNode/deleteNode that changed the state
\*   nUndo, nRedo  calls of undo and of redo (counted up to MaxChanges + 1)
\*   loaded    the tree the last load produced
\*   afterMut  the tree that was current when the mutations ended
Min(a, b) == IF a < b THEN a ELSE b

RunAfterLoad(tree) ==
  [ phase |-> "mut", fromLoad |-> TRUE, nMut |-> 0, nUndo |-> 0, nRedo |-> 0,
    loaded |-> Some(tree), afterMut |-> Some(tree) ]

RunAfterMutation(prev, next) ==
  IF next = prev THEN run
  ELSE IF run.phase = "mut"
  THEN [run EXCEPT !.nMut = run.nMut + 1, !.afterMut = Some(Content(next))]
  ELSE [run EXCEPT !.phase = "mut", !.fromLoad = FALSE, !.nMut = 1,
                   !.nUndo = 0, !.nRedo = 0, !.afterMut = Some(Content(next))]

RunAfterUndo(prev) ==
  IF prev.currentFile = None THEN run
  ELSE IF run.phase = "mut" THEN [run EXCEPT !.phase = "undo", !.nUndo = 1]
  ELSE IF run.phase = "undo"
  THEN [run EXCEPT !.nUndo = Min(run.nUndo + 1, MaxChanges + 1)]
  ELSE [run EXCEPT !.phase = "undo", !.fromLoad = FALSE, !.nMut = 0,
                   !.nUndo = 1, !.nRedo = 0, !.afterMut = Some(Content(prev))]

RunAfterRedo(prev) ==
  IF prev.currentFile = None THEN run
  ELSE IF run.phase = "undo" THEN [run EXCEPT !.phase = "redo", !.nRedo = 1]
  ELSE IF run.phase = "redo"
  THEN [run EXCEPT !.nRedo = Min(run.nRedo + 1, MaxChanges + 1)]
  ELSE [run EXCEPT !.phase = "redo", !.fromLoad = FALSE, !.nUndo = 0, !.nRedo = 1]

\* the file passes validateFile and its text parses
Loadable(file) ==
  /\ file.size <= maxFileSize
  /\ file.content.wellFormed
  /\ LastSegment(toLowerCase(file.name)) \in
       { <<"ini">>, <<"json">>, <<"xml">>, <<"txt">>, <<"config">> }

HistLoadFile ==
  \E file \in Files :
    /\ LoadFileStep(file)
    /\ run' = IF Loadable(file) /\ state'.currentFile # None
              THEN RunAfterLoad(Content(state')) ELSE run
    /\ UNCHANGED <<lastOp, iniVars, utilVars>>

HistUpdateNode ==
  \E path \in UpdatePaths, newValue \in Values :
    /\ UpdateNodeStep(path, newValue)
    /\ run' = RunAfterMutation(state, state')
    /\ UNCHANGED <<lastOp, iniVars, utilVars>>

HistAddNode ==
  \E parentPath \in AddParents, key \in NewKeys :
    /\ AddNodeStep(parentPath, key, Str("y"), "string")
    /\ run' = RunAfterMutation(state, state')
    /\ UNCHANGED <<lastOp, iniVars, utilVars>>

HistDeleteNode ==
  \E path \in DeletePaths :
    /\ DeleteNodeStep(path)
    /\ run' = RunAfterMutation(state, state')
    /\ UNCHANGED <<lastOp, iniVars, utilVars>>

HistUndo ==
  /\ UndoStep
  /\ run' = RunAfterUndo(state)
  /\ UNCHANGED <<lastOp, iniVars, utilVars>>

HistRedo ==
  /\ RedoStep
  /\ run' = RunAfterRedo(state)
  /\ UNCHANGED <<lastOp, iniVars, utilVars>>

HistNext ==
  \/ HistLoadFile
  \/ HistUpdateNode
  \/ HistAddNode
  \/ HistDeleteNode
  \/ HistUndo
  \/ HistRedo

HistSpec == Init /\ [][HistNext]_vars

(* ------------- the unified editor, driven over a whole tree ------------ *)
\* TreeSpec runs the same handlers with every node of the JSON file's tree
\* as a target: the root, the leaf a, the container o and its leaf c.
\* selectNode is called the way UnifiedTreeView calls it, with the path of
\* a node of the tree on screen, or with null (the editor form's Cancel).
JsonRoot == <<"f", ".", "json">>
JsonO == <<"f", ".", "json", ".", "o">>
JsonOC == <<"f", ".", "json", ".", "o", ".", "c">>
TreePaths == {JsonRoot, JsonLeaf, JsonO, JsonOC}
TreeUpdatePaths == {JsonOC}
TreeAddParents == {JsonLeaf, JsonO}
TreeNewKeys == {<<"n">>}

CurrentPaths(st) ==
  IF st.currentFile = None THEN {} ELSE NodePaths(Content(st))

TreeLoadFile ==
  /\ LoadFileStep(JsonFile)
  /\ lastOp' = [ Op("loadFile", JsonFile.name, <<>>, Null)
                   EXCEPT !.calls = loadFileRun(state, JsonFile).calls ]
  /\ UNCHANGED <<run, iniVars, utilVars>>

TreeUpdateNode ==
  \E path \in TreeUpdatePaths :
    /\ UpdateNodeStep(path, Str("y"))
    /\ lastOp' = Op("updateNode", path, <<>>, Str("y"))
    /\ UNCHANGED <<run, iniVars, utilVars>>

TreeAddNode ==
  \E parentPath \in TreeAddParents, key \in TreeNewKeys :
    /\ AddNodeStep(parentPath, key, Str("y"), "string")
    /\ lastOp' = Op("addNode", parentPath, key, Str("y"))
    /\ UNCHANGED <<run, iniVars, utilVars>>

TreeDeleteNode ==
  \E path \in TreePaths :
    /\ DeleteNodeStep(path)
    /\ lastOp' = [ Op("deleteNode", path, <<>>, Null)
                     EXCEPT !.selected = state.selectedNode ]
    /\ UNCHANGED <<run, iniVars, utilVars>>

TreeSelectNode ==
  \E sel \in {None} \cup { Some(p) : p \in CurrentPaths(state) } :
    /\ state' = selectNode(state, sel)
    /\ lastOp' = Op("selectNode", IF sel = None THEN <<>> ELSE sel[1], <<>>, Null)
    /\ UNCHANGED <<run, iniVars, utilVars>>

TreeNext ==
  \/ TreeLoadFile
  \/ TreeUpdateNode
  \/ TreeAddNode
  \/ TreeDeleteNode
  \/ TreeSelectNode
  \/ Undo
  \/ Redo
  \/ Reset

TreeSpec == Init /\ [][TreeNext]_vars

(* ---------------------------- the INI editor -------------------------- *)
IniFiles == {IniFile}
IniSections == {"s", "t"}
IniKeys == {"k", "j"}
IniValues == {"x", "y"}

\* room left for one more snapshot
IniCanGrow == Len(iniState.history) < MaxIniHistory

IniLoadFile ==
  \E file \in IniFiles :
    /\ iniState' = iniLoadFile(iniState, file)
    /\ iniLastOp' = IniOp("loadFile", "", "", "")
    /\ UNCHANGED <<state, lastOp, run, utilVars>>

IniUpdateKey ==
  \E section \in IniSections, key \in IniKeys, newValue \in IniValues :
    /\ IniCanGrow
    /\ iniState' = updateKey(iniState, section, key, newValue, None)
    /\ iniLastOp' = IniOp("updateKey", section, key, newValue)
    /\ UNCHANGED <<state, lastOp, run, utilVars>>

IniAddSection ==
  \E sectionName \in IniSections :
    /\ IniCanGrow
    /\ iniState' = addSection(iniState, sectionName)
    /\ iniLastOp' = IniOp("addSection", sectionName, "", "")
    /\ UNCHANGED <<state, lastOp, run, utilVars>>

IniDeleteSection ==
  \E sectionName \in IniSections :
    /\ IniCanGrow
    /\ iniState' = deleteSection(iniState, sectionName)
    /\ iniLastOp' = IniOp("deleteSection", sectionName, "", "")
    /\ UNCHANGED <<state, lastOp, run, utilVars>>

IniRenameSection ==
  /\ IniCanGrow
  /\ iniState' = renameSection(iniState, "s", "t")
  /\ iniLastOp' = IniOp("renameSection", "s", "", "t")
  /\ UNCHANGED <<state, lastOp, run, utilVars>>

IniAddKey ==
  \E section \in IniSections, key \in IniKeys :
    /\ IniCanGrow
    /\ iniState' = addKey(iniState, section, key, "y", "string")
    /\ iniLastOp' = IniOp("addKey", section, key, "y")
    /\ UNCHANGED <<state, lastOp, run, utilVars>>

IniDeleteKey ==
  \E section \in IniSections, key \in IniKeys :
    /\ IniCanGrow
    /\ iniState' = deleteKey(iniState, section, key)
    /\ iniLastOp' = IniOp("deleteKey", section, key, "")
    /\ UNCHANGED <<state, lastOp, run, utilVars>>

IniRenameKey ==
  /\ IniCanGrow
  /\ iniState' = renameKey(iniState, "s", "k", "j")
  /\ iniLastOp' = IniOp("renameKey", "s", "k", "j")
  /\ UNCHANGED <<state, lastOp, run, utilVars>>

IniUndo ==
  /\ iniState' = iniUndo(iniState)
  /\ iniLastOp' = IniOp("undo", "", "", "")
  /\ UNCHANGED <<state, lastOp, run, utilVars>>

IniRedo ==
  /\ iniState' = iniRedo(iniState)
  /\ iniLastOp' = IniOp("redo", "", "", "")
  /\ UNCHANGED <<state, lastOp, run, utilVars>>

IniReset ==
  /\ iniState' = iniReset
  /\ iniLastOp' = IniOp("reset", "", "", "")
  /\ UNCHANGED <<state, lastOp, run, utilVars>>

IniNext ==
  \/ IniLoadFile
  \/ IniUpdateKey
  \/ IniAddSection
  \/ IniDeleteSection
  \/ IniRenameSection
  \/ IniAddKey
  \/ IniDeleteKey
  \/ IniRenameKey
  \/ IniUndo
  \/ IniRedo
  \/ IniReset

IniSpec == Init /\ [][IniNext]_vars

(* ------------------------------ Toolbar ------------------------------- *)
\* a finding is a ValidationError without its message and position
Finding(type, severity) == [type |-> type, severity |-> severity]

\* the type / severity pairs the validators of iniParser.ts produce
ProducedFindings ==
  { Finding("duplicate_key", "error"), Finding("syntax", "error"),
    Finding("invalid_section", "error"), Finding("empty_key", "error"),
    Finding("reserved_word", "warning"), Finding("invalid_value", "error"),
    Finding("invalid_value", "warning") }

\* Array.prototype.filter is SelectSeq
getValidationSummary(errors) ==
  [ errorCount |-> Len(SelectSeq(errors, LAMBDA e : e.severity = "error")),
    warningCount |-> Len(SelectSeq(errors, LAMBDA e : e.severity = "warning")),
    criticalIssues |->
      SelectSeq(errors, LAMBDA e :
        \/ e.type = "syntax"
        \/ e.type = "duplicate_key"
        \/ (e.type = "invalid_value" /\ e.severity = "error")) ]

\* mutant of canSave: the critical issues are left out of the condition
canSaveIgnoresCritical(hasData, isDirty, isSharedFile, validationSummary) ==
  hasData /\ (isDirty \/ isSharedFile)

\* Toolbar's canSave; the Save button is rendered with disabled = !canSave
canSave(hasData, isDirty, isSharedFile, validationSummary) ==
  LET hasCriticalIssues ==
        /\ validationSummary # None
        /\ Len(validationSummary[1].criticalIssues) > 0
  IN hasData /\ (isDirty \/ isSharedFile) /\ ~hasCriticalIssues

SeqsUpTo(S, n) == UNION { [1..k -> S] : k \in 0..n }

\* App renders the Toolbar with the summary of a list of findings
ToolbarInit ==
  /\ EditorInit
  /\ page = PlainPage
  /\ result = None
  /\ \E errors \in SeqsUpTo(ProducedFindings, MaxFindings),
        hasData \in BOOLEAN, isDirty \in BOOLEAN, isSharedFile \in BOOLEAN :
        call = [ fn |-> "Toolbar", errors |-> errors, hasData |-> hasData,
                 isDirty |-> isDirty, isSharedFile |-> isSharedFile ]

RenderToolbar ==
  /\ call.fn = "Toolbar"
  /\ result = None
  /\ LET validationSummary == getValidationSummary(call.errors) IN
       result' = Some([ validationSummary |-> validationSummary,
                        canSave |-> canSave(call.hasData, call.isDirty,
                                            call.isSharedFile,
                                            Some(validationSummary)) ])
  /\ UNCHANGED <<state, lastOp, run, iniVars, call, page, rules, pending>>

ToolbarNext == RenderToolbar
ToolbarSpec == ToolbarInit /\ [][ToolbarNext]_vars

(* ----------------------------- share codec ---------------------------- *)
\* A property of a JSON object.  s holds the characters of a string (file
\* name tokens or a file text), empty and blank say whether it has no
\* character / nothing but white space; n is the value of a number.
StrVal(s) ==
  [typeof |-> "string", empty |-> FALSE, blank |-> FALSE, n |-> 0, s |-> s]
EmptyStr ==
  [typeof |-> "string", empty |-> TRUE, blank |-> TRUE, n |-> 0, s |-> <<>>]
BlankStr ==
  [typeof |-> "string", empty |-> FALSE, blank |-> TRUE, n |-> 0, s |-> <<>>]
NumVal(n) ==
  [typeof |-> "number", empty |-> FALSE, blank |-> FALSE, n |-> n, s |-> <<>>]
Absent ==
  [typeof |-> "undefined", empty |-> TRUE, blank |-> TRUE, n |-> 0, s |-> <<>>]

\* !!v
Truthy(v) ==
  CASE v.typeof = "string" -> ~v.empty
    [] v.typeof = "number" -> v.n # 0
    [] v.typeof = "undefined" -> FALSE
    [] OTHER -> TRUE

\* Date.now()
DateNow == 1

\* the JSON object of a share link, every property it may carry
Envelope(version, timestamp, filename, data, content, fileType) ==
  [ version |-> version, timestamp |-> timestamp, filename |-> filename,
    data |-> data, content |-> content, fileType |-> fileType ]

\* JSON.stringify / JSON.parse (parse throws on text that is not JSON: None)
JSONstringify(value) == [json |-> TRUE, value |-> value]
JSONparse(text) == IF text.json THEN Some(text.value) ELSE None

\* LZString: decompressFromEncodedURIComponent gives null (None) for input
\* that compressToEncodedURIComponent did not produce
compressToEncodedURIComponent(text) == [lz |-> TRUE, text |-> text]
decompressFromEncodedURIComponent(param) ==
  IF param.lz THEN Some(param.text) ELSE None

parseValue(value, type) ==
  CASE type = "boolean" ->
         <<"boolean",
           IF value \in {"true", "yes", "on", "t", "TRUE", "T"}
           THEN "true" ELSE "false">>
    [] type = "number" -> <<"number", value>>
    [] OTHER -> Str(value)

\* the entries serializeIniData writes for a section's keys
KeyEntries(keys) ==
  [j \in 1..Len(keys) |->
     << <<keys[j].key>>, JVal(parseValue(keys[j].value, keys[j].type)) >>]

\* serializeIniData: the keys of a section named Root at top level, every
\* other section as an object; ini.stringify of an empty object is ""
RECURSIVE IniResult(_)
IniResult(sections) ==
  IF sections = <<>> THEN <<>>
  ELSE LET section == Head(sections) IN
       (IF section.name = "Root" THEN KeyEntries(section.keys)
        ELSE << << <<section.name>>, JObj(KeyEntries(section.keys)) >> >>)
       \o IniResult(Tail(sections))

serializeIniData(data) ==
  LET entries == IniResult(data.sections) IN
  IF entries = <<>> THEN EmptyStr ELSE StrVal(Text(JObj(entries)))

\* generateShareUrl(iniData): None when it throws (iniData.sections.map on
\* an object without sections), otherwise the URL, as its config parameter
generateShareUrl(iniData) ==
  IF iniData.sections = None THEN None
  ELSE
    LET cleanData ==
          [ sections |->
              [i \in 1..Len(iniData.sections[1]) |->
                 [ iniData.sections[1][i] EXCEPT !.keys =
                     [j \in 1..Len(@) |->
                        [ @[j] EXCEPT !.comment = None,
                                      !.isModified = FALSE ]] ]] ]
        shareData == Envelope(StrVal(<<"1.0">>), NumVal(DateNow),
                              iniData.filename,
                              serializeIniData(cleanData), Absent, Absent)
    IN Some([ config |->
                Some(compressToEncodedURIComponent(JSONstringify(shareData))) ])

\* parseShareUrl on a URL: throws, or returns null (None) or the envelope
parseShareUrl(url) ==
  IF url.config = None THEN [throws |-> FALSE, value |-> None]
  ELSE
    LET decompressed == decompressFromEncodedURIComponent(url.config[1]) IN
    IF decompressed = None THEN [throws |-> TRUE, value |-> None]
    ELSE
      LET parsed == JSONparse(decompressed[1]) IN
      IF parsed = None THEN [throws |-> TRUE, value |-> None]
      ELSE
        LET shareData == parsed[1] IN
        IF \/ ~Truthy(shareData.version)
           \/ ~Truthy(shareData.data)
           \/ ~Truthy(shareData.filename)
        THEN [throws |-> TRUE, value |-> None]
        ELSE [throws |-> FALSE, value |-> Some(shareData)]

\* the object App.handleShare of the unified editor passes to
\* generateShareUrl: it has no sections property
UnifiedShareData(currentFile, exported) ==
  [ version |-> StrVal(<<"2.0">>),
    fileType |-> StrVal(<<currentFile.type>>),
    content |-> exported,
    filename |-> currentFile.filename,
    sections |-> None ]

\* handleShare: the share modal's URL, or the error it sets
handleShare(shareData) ==
  LET generated == generateShareUrl(shareData) IN
  IF generated = None
  THEN [ url |-> None, error |-> Some("Failed to generate share URL"),
         decoded |-> None ]
  ELSE [ url |-> generated, error |-> None, decoded |-> None ]

\* documents to share: what the unified editor holds (type, exported text,
\* file name) and the IniData of the INI editor
ShareNames ==
  { <<"f", ".", "json">>, <<"c", ".", "INI">>, <<"f", ".", "xml">>,
    <<"a", ".", "txt">> }
ShareTexts ==
  { EmptyStr, StrVal(JsonFile.content), StrVal(IniFile.content),
    StrVal(Text(JObj(<<>>))) }
ShareIniTexts ==
  { IniFile.content, Text(JObj(<<>>)),
    Text(JObj(<< <<(<<"Root">>), JObj(<< <<(<<"k">>), JVal(Str("1"))>> >>)>>,
                 <<(<<"s">>), JObj(<< <<(<<"k">>), JVal(Str("yes"))>> >>)>> >>)) }

ShareInit ==
  /\ EditorInit
  /\ page = PlainPage
  /\ result = None
  /\ \/ \E type \in {"ini", "json", "xml"}, text \in ShareTexts,
            name \in ShareNames :
            call = [ fn |-> "handleShare", editor |-> "unified",
                     shareData |->
                       UnifiedShareData([type |-> type,
                                         filename |-> StrVal(name)], text) ]
     \/ \E text \in ShareIniTexts, name \in ShareNames :
            call = [ fn |-> "handleShare", editor |-> "ini",
                     shareData |->
                       LET data == parseIniFile(text, StrVal(name)) IN
                       [ sections |-> Some(data.sections),
                         filename |-> data.filename ] ]

HandleShare ==
  /\ call.fn = "handleShare"
  /\ result = None
  /\ result' = Some(handleShare(call.shareData))
  /\ UNCHANGED <<state, lastOp, run, iniVars, call, page, rules, pending>>

\* the generated URL is opened and decoded
OpenShareUrl ==
  /\ call.fn = "handleShare"
  /\ result # None
  /\ result[1].url # None
  /\ result[1].decoded = None
  /\ result' = Some([ result[1] EXCEPT
                        !.decoded = Some(parseShareUrl(result[1].url[1])) ])
  /\ UNCHANGED <<state, lastOp, run, iniVars, call, page, rules, pending>>

ShareNext == HandleShare \/ OpenShareUrl
ShareSpec == ShareInit /\ [][ShareNext]_vars

(* --------------------------- startup import -------------------------- *)
validateShareData(shareData) ==
  IF \/ ~Truthy(shareData.version)
     \/ ~Truthy(shareData.data)
     \/ ~Truthy(shareData.filename)
  THEN FALSE
  ELSE IF /\ Truthy(shareData.timestamp)
          /\ (shareData.timestamp.typeof # "number" \/ shareData.timestamp.n <= 0)
  THEN FALSE
  ELSE IF shareData.data.typeof # "string" \/ shareData.data.blank
  THEN FALSE
  ELSE TRUE

\* the text of new File([content], ...): an undefined content becomes the
\* characters "undefined", which ini.parse reads as one key and JSON.parse
\* rejects; an empty text is an empty INI document and no JSON document
BlobText(content, fileType) ==
  IF content.typeof = "undefined" THEN
    IF fileType = "ini"
    THEN Text(JObj(<< <<(<<"undefined">>), JVal(<<"boolean", "true">>)>> >>))
    ELSE Garbage
  ELSE IF content.empty \/ content.blank THEN
    IF fileType = "ini" THEN Text(JObj(<<>>)) ELSE Garbage
  ELSE content.s

\* the File loadSharedConfig builds from the envelope
SyntheticFile(shareData) ==
  LET named == [ name |-> shareData.filename.s,
                 size |-> 1,
                 type |-> IF shareData.fileType = StrVal(<<"json">>)
                          THEN "application/json"
                          ELSE IF shareData.fileType = StrVal(<<"xml">>)
                          THEN "application/xml"
                          ELSE "text/plain" ]
  IN [ name |-> named.name, size |-> named.size, type |-> named.type,
       content |-> BlobText(shareData.content, detectFileType(named)) ]

\* one run of the effect: st is the editor state, pg the page
loadSharedConfig(st, pg) ==
  LET parsed == parseShareUrl(pg.url)
      failed == [ state |-> st,
                  page |-> [ pg EXCEPT
                               !.pc = "done",
                               !.error = Some("Failed to load shared configuration"),
                               !.url.config = None ] ]
  IN
  IF parsed.throws THEN failed
  ELSE IF parsed.value # None /\ validateShareData(parsed.value[1]) THEN
    LET loaded == loadFileRun(st, SyntheticFile(parsed.value[1])) IN
    IF loaded.calls[Len(loaded.calls)] # "setState" THEN failed
    ELSE [ state |-> loaded.state,
           page |-> [ pg EXCEPT !.pc = "done",
                                !.isSharedFile = TRUE,
                                !.url.config = None,
                                !.error = None ] ]
  ELSE [ state |-> st, page |-> [pg EXCEPT !.pc = "done"] ]

\* config parameters: absent, not LZString output, not JSON, or an envelope
NotJson == [json |-> FALSE, value |-> <<>>]
NotCompressed == [lz |-> FALSE, text |-> NotJson]
ImportEnvelopes ==
  { Envelope(version, timestamp, filename, data, content, fileType) :
      version \in {Absent, StrVal(<<"1.0">>), StrVal(<<"2.0">>)},
      timestamp \in {Absent, NumVal(DateNow), NumVal(-1), StrVal(<<"x">>)},
      filename \in {Absent, StrVal(JsonFile.name), StrVal(IniFile.name),
                    StrVal(ExeFile.name)},
      data \in {Absent, BlankStr, StrVal(IniFile.content)},
      content \in {Absent, StrVal(JsonFile.content), StrVal(Garbage)},
      fileType \in {Absent, StrVal(<<"json">>)} }
ConfigParams ==
  {None, Some(NotCompressed), Some(compressToEncodedURIComponent(NotJson))}
  \cup { Some(compressToEncodedURIComponent(JSONstringify(e))) :
           e \in ImportEnvelopes }

ImportInit ==
  /\ EditorInit
  /\ call = NoCall
  /\ result = None
  /\ \E config \in ConfigParams :
        page = [ pc |-> "start", url |-> [config |-> config],
                 opened |-> config, error |-> None, isSharedFile |-> FALSE ]

LoadSharedConfig ==
  /\ page.pc = "start"
  /\ LET done == loadSharedConfig(state, page) IN
       /\ state' = done.state
       /\ page' = done.page
  /\ UNCHANGED <<lastOp, run, iniVars, call, result, rules, pending>>

ImportNext == LoadSharedConfig
ImportSpec == ImportInit /\ [][ImportNext]_vars

(* ------------------------- pre-flight validation ---------------------- *)
\* files handed to validateFile: a name, an extension, a size
UploadNames == { <<"a">>, <<"a", ".", "b">> }
UploadExtensions ==
  {"ini", "json", "xml", "cfg", "conf", "config", "txt", "INI", "exe"}
UploadSizes == {0, 1, maxFileSize, maxFileSize + 1}

ValidateInit ==
  /\ EditorInit
  /\ page = PlainPage
  /\ result = None
  /\ \E name \in UploadNames, ext \in UploadExtensions, size \in UploadSizes :
        call = [ fn |-> "validateFile",
                 file |-> [ name |-> name \o <<".", ext>>, size |-> size,
                            type |-> "", content |-> Text(JObj(<<>>)) ] ]

ValidateFile ==
  /\ call.fn = "validateFile"
  /\ result = None
  /\ result' = Some([ isValid |-> validateFile(call.file),
                      fileType |-> detectFileType(call.file) ])
  /\ UNCHANGED <<state, lastOp, run, iniVars, call, page, rules, pending>>

ValidateNext == ValidateFile
ValidateSpec == ValidateInit /\ [][ValidateNext]_vars

(* ------------------------------ INI text ------------------------------ *)
\* the lines of an INI text: a section header or key=value
HeaderLine(name) == [kind |-> "section", name |-> name, value |-> ""]
KeyLine(key, value) == [kind |-> "key", name |-> key, value |-> value]

\* p[key] = value on the entries of an object: an existing key keeps its
\* place and takes the new value
SetEntry(entries, key, value) ==
  IF \E i \in 1..Len(entries) : entries[i][1] = key
  THEN [i \in 1..Len(entries) |->
          IF entries[i][1] = key THEN <<key, value>> ELSE entries[i]]
  ELSE Append(entries, <<key, value>>)

GetEntry(entries, key) ==
  entries[CHOOSE i \in 1..Len(entries) : entries[i][1] = key][2]

\* ini.parse: the object of the text read so far (out) and the name of the
\* section the next key goes to (None before the first header)
RECURSIVE iniParseLines(_, _, _)
iniParseLines(lines, out, section) ==
  IF lines = <<>> THEN out
  ELSE
    LET line == Head(lines)
        name == <<line.name>> IN
    IF line.kind = "section" THEN
      iniParseLines(Tail(lines),
                    IF \E i \in 1..Len(out) : out[i][1] = name
                    THEN out ELSE Append(out, <<name, JObj(<<>>)>>),
                    Some(name))
    ELSE IF section = None THEN
      iniParseLines(Tail(lines),
                    SetEntry(out, name, JVal(Str(line.value))), section)
    ELSE
      LET p == GetEntry(out, section[1]) IN
      iniParseLines(Tail(lines),
                    SetEntry(out, section[1],
                             JObj(SetEntry(p.kids, name, JVal(Str(line.value))))),
                    section)

iniParse(lines) == JObj(iniParseLines(lines, <<>>, None))

IniLines ==
  { HeaderLine("s"), HeaderLine("t"),
    KeyLine("k", "x"), KeyLine("k", "y"), KeyLine("j", "x") }

IniParseInit ==
  /\ EditorInit
  /\ page = PlainPage
  /\ result = None
  /\ \E lines \in SeqsUpTo(IniLines, MaxIniLines) :
        call = [fn |-> "parseIniFile", lines |-> lines, filename |-> "c.ini"]

ParseIniFile ==
  /\ call.fn = "parseIniFile"
  /\ result = None
  /\ result' = Some(parseIniFile(Text(iniParse(call.lines)), call.filename))
  /\ UNCHANGED <<state, lastOp, run, iniVars, call, page, rules, pending>>

IniParseNext == ParseIniFile
IniParseSpec == IniParseInit /\ [][IniParseNext]_vars

(* ----------------------------- serializers --------------------------- *)
\* child.key.startsWith('[') and parseInt(child.key.replace(/[\[\]]/g, '')),
\* on the keys of the model; NaN is -1
BracketKeys == {"[0]", "[1]", "[2]", "[x]"}
StartsWithBracket(key) == key[1] \in BracketKeys
ParseIndex(key) ==
  CASE key = <<"[0]">> -> 0
    [] key = <<"[1]">> -> 1
    [] key = <<"[2]">> -> 2
    [] OTHER -> -1

\* obj[key] = value for every pair, in order
RECURSIVE AssignAll(_, _)
AssignAll(entries, pairs) ==
  IF pairs = <<>> THEN entries
  ELSE AssignAll(SetEntry(entries, Head(pairs)[1], Head(pairs)[2]), Tail(pairs))

\* array[index] = value for every pair, in order, as JSON.stringify writes
\* the array: a hole is null, a property that is not an index is left out
ArrayOf(pairs) ==
  LET indexes == { ParseIndex(pairs[i][1]) : i \in 1..Len(pairs) } \ {-1}
      length == IF indexes = {} THEN 0
                ELSE 1 + CHOOSE m \in indexes : \A k \in indexes : k <= m
  IN [ i \in 1..length |->
         IF \E j \in 1..Len(pairs) : ParseIndex(pairs[j][1]) = i - 1
         THEN LET last == CHOOSE j \in 1..Len(pairs) :
                            /\ ParseIndex(pairs[j][1]) = i - 1
                            /\ \A k \in 1..Len(pairs) :
                                 ParseIndex(pairs[k][1]) = i - 1 => k <= j
              IN << <<IndexTok(i - 1)>>, pairs[last][2] >>
         ELSE << <<IndexTok(i - 1)>>, JVal(Null) >> ]

\* processNode of serializeJsonContent
RECURSIVE jsonProcessNode(_)
jsonProcessNode(node) ==
  IF ~node.hasChildren THEN JVal(node.value)
  ELSE
    LET pairs == [i \in 1..Len(node.children) |->
                    <<node.children[i].key, jsonProcessNode(node.children[i])>>]
    IN IF \E i \in 1..Len(node.children) :
            StartsWithBracket(node.children[i].key)
       THEN JArr(ArrayOf(pairs))
       ELSE JObj(AssignAll(<<>>, pairs))

serializeJsonContent(data) ==
  Text(IF data.hasChildren THEN jsonProcessNode(data) ELSE JVal(data.value))

\* processNode of serializeIniContent, with the result object (res) passed along.
\* (No text of the model has a key outside a section that is named like a
\* section, so result[parentPath] is absent or an object.)
RECURSIVE iniProcessNode(_, _, _)
RECURSIVE iniProcessChildren(_, _, _)
iniProcessChildren(children, parentPath, res) ==
  IF children = <<>> THEN res
  ELSE iniProcessChildren(Tail(children), parentPath,
                          iniProcessNode(Head(children), parentPath, res))

iniProcessNode(node, parentPath, res) ==
  IF ~node.hasChildren THEN
    IF parentPath = <<"root">> \/ parentPath = <<>>
    THEN SetEntry(res, node.key, JVal(node.value))
    ELSE
      LET started == IF \E i \in 1..Len(res) : res[i][1] = parentPath
                     THEN res
                     ELSE SetEntry(res, parentPath, JObj(<<>>))
          section == GetEntry(started, parentPath)
      IN SetEntry(started, parentPath,
                  JObj(SetEntry(section.kids, node.key, JVal(node.value))))
  ELSE
    iniProcessChildren(node.children,
                       IF node.key = <<"Root">> \/ node.path = <<"root">>
                       THEN <<>> ELSE node.key,
                       res)

\* ini.stringify: the keys outside a section first, then every section
\* that has keys under its header
iniStringify(res) ==
  Text(JObj(SelectSeq(res, LAMBDA e : ~IsSection(e))
            \o SelectSeq(res, LAMBDA e : IsSection(e) /\ e[2].kids # <<>>)))

serializeIniContent(data) ==
  iniStringify(IF data.hasChildren
               THEN iniProcessChildren(data.children, <<>>, <<>>)
               ELSE <<>>)

\* FileProcessor.serializeContent for the formats of the model
serializeContent(data, fileType) ==
  IF fileType = "json" THEN serializeJsonContent(data)
  ELSE serializeIniContent(data)

(* ------------------------ parse, serialize, parse --------------------- *)
RoundTripLeaves == { JVal(v) : v \in {Str("x"), <<"number", "1">>, Null} }
RoundTripFlatJson ==
  {JObj(<<>>), JArr(<<>>)}
  \cup { JObj(<< <<k, l>> >>) : k \in {<<"a">>, <<"[0]">>}, l \in RoundTripLeaves }
  \cup { JArr(<< <<(<<"[0]">>), l>> >>) : l \in RoundTripLeaves }
\* objects with two properties: named and bracket-named ones mixed, and
\* bracket-named ones out of numeric order
RoundTripMixedJson ==
  { JObj(<< <<ks[1], JVal(Str("x"))>>, <<ks[2], JVal(<<"number", "1">>)>> >>) :
      ks \in { p \in {<<"a">>, <<"[0]">>, <<"[1]">>}
                      \X {<<"b">>, <<"[0]">>, <<"[1]">>} : p[1] # p[2] } }
RoundTripJson ==
  RoundTripLeaves \cup RoundTripFlatJson \cup RoundTripMixedJson
  \cup { JObj(<< <<(<<"o">>), d>> >>) : d \in RoundTripFlatJson }

\* INI texts as ini.parse reads them: an optional key outside a section,
\* section s with zero to two keys, an optional section t
RoundTripIni ==
  { JObj(root \o << <<(<<"s">>), JObj(keys)>> >> \o more) :
      root \in { <<>>, << <<(<<"k">>), JVal(Str("x"))>> >> },
      keys \in { <<>>, << <<(<<"k">>), JVal(Str("x"))>> >>,
                 << <<(<<"k">>), JVal(Str("x"))>>,
                    <<(<<"j">>), JVal(Str("1"))>> >> },
      more \in { <<>>, << <<(<<"t">>), JObj(<< <<(<<"k">>), JVal(Str("x"))>> >>)>> >> } }

RoundTripInit ==
  /\ EditorInit
  /\ page = PlainPage
  /\ result = None
  /\ \/ \E doc \in RoundTripJson :
          call = [ fn |-> "roundTrip", fileType |-> "json",
                   content |-> Text(doc), filename |-> <<"f", ".", "json">> ]
     \/ \E doc \in RoundTripIni :
          call = [ fn |-> "roundTrip", fileType |-> "ini",
                   content |-> Text(doc), filename |-> <<"c", ".", "ini">> ]

ParseFirst ==
  /\ call.fn = "roundTrip"
  /\ result = None
  /\ result' = Some([ first |-> parseContent(call.content, call.fileType,
                                            call.filename)[1],
                      text |-> None, second |-> None ])
  /\ UNCHANGED <<state, lastOp, run, iniVars, call, page, rules, pending>>

Serialize ==
  /\ call.fn = "roundTrip"
  /\ result # None
  /\ result[1].text = None
  /\ result' = Some([ result[1] EXCEPT
                        !.text = Some(serializeContent(result[1].first,
                                                       call.fileType)) ])
  /\ UNCHANGED <<state, lastOp, run, iniVars, call, page, rules, pending>>

ParseAgain ==
  /\ call.fn = "roundTrip"
  /\ result # None
  /\ result[1].text # None
  /\ result[1].second = None
  /\ result' = Some([ result[1] EXCEPT
                        !.second = parseContent(result[1].text[1], call.fileType,
                                                call.filename) ])
  /\ UNCHANGED <<state, lastOp, run, iniVars, call, page, rules, pending>>

RoundTripNext == ParseFirst \/ Serialize \/ ParseAgain
RoundTripSpec == RoundTripInit /\ [][RoundTripNext]_vars

(* --------------------------- ValidationEngine ------------------------- *)
\* the most rules the engine is given, over all paths
MaxRules == 2

\* a ValidationRule: minLength and maxLength 0 when absent (0 is as falsy),
\* pattern, custom and message None when absent.  A pattern is named by the
\* texts it matches, a custom predicate by the values it accepts.
Rule(required, minLength, maxLength, pattern, custom, message) ==
  [ required |-> required, minLength |-> minLength, maxLength |-> maxLength,
    pattern |-> pattern, custom |-> custom, message |-> message ]

ValidationError(path, message, severity, type) ==
  [ path |-> path, message |-> message, severity |-> severity, type |-> type ]

\* String(value).length for the values of the model
StringLength(value) ==
  CASE value[2] = "" -> 0
    [] value[2] \in {"x", "y", "1", "0"} -> 1
    [] value[2] = "xy" -> 2
    [] OTHER -> 4

PatternTest(pattern, value) ==
  CASE pattern = "digits" -> value[2] \in NumberTexts
    [] OTHER -> FALSE

CustomTest(custom, value) ==
  CASE custom = "notX" -> value # Str("x")
    [] OTHER -> FALSE

IsEmptyValue(value) == value = Null \/ value = Undefined \/ value = Str("")

MessageOr(rule, default) ==
  IF rule.message # None THEN rule.message[1] ELSE default

\* None (null) when the value passes the rule
validateValue(value, rule, path) ==
  IF rule.required /\ IsEmptyValue(value)
  THEN Some(ValidationError(path, MessageOr(rule, "This field is required"),
                            "error", "required"))
  ELSE IF IsEmptyValue(value) THEN None
  ELSE IF rule.minLength # 0 /\ StringLength(value) < rule.minLength
  THEN Some(ValidationError(path, MessageOr(rule, "Minimum length is"),
                            "error", "minLength"))
  ELSE IF rule.maxLength # 0 /\ StringLength(value) > rule.maxLength
  THEN Some(ValidationError(path, MessageOr(rule, "Maximum length is"),
                            "error", "maxLength"))
  ELSE IF rule.pattern # None /\ ~PatternTest(rule.pattern[1], value)
  THEN Some(ValidationError(path,
                            MessageOr(rule, "Value does not match required pattern"),
                            "error", "pattern"))
  ELSE IF rule.custom # None /\ ~CustomTest(rule.custom[1], value)
  THEN Some(ValidationError(path, MessageOr(rule, "Custom validation failed"),
                            "error", "custom"))
  ELSE None

\* nodeRules.forEach: the errors of the rules that fail, in the rules' order
RECURSIVE NodeRuleErrors(_, _)
NodeRuleErrors(node, nodeRules) ==
  IF nodeRules = <<>> THEN <<>>
  ELSE LET error == validateValue(node.value, Head(nodeRules), node.path) IN
       (IF error # None THEN <<error[1]>> ELSE <<>>)
         \o NodeRuleErrors(node, Tail(nodeRules))

\* this.rules.get(path) || []
RulesFor(ruleMap, path) ==
  IF path \in DOMAIN ruleMap THEN ruleMap[path] ELSE <<>>

RECURSIVE validateNode(_, _)
RECURSIVE validateChildren(_, _)
validateChildren(ruleMap, children) ==
  IF children = <<>> THEN <<>>
  ELSE validateNode(ruleMap, Head(children))
         \o validateChildren(ruleMap, Tail(children))
validateNode(ruleMap, node) ==
  NodeRuleErrors(node, RulesFor(ruleMap, node.path))
    \o (IF node.hasChildren THEN validateChildren(ruleMap, node.children)
        ELSE <<>>)

addRule(ruleMap, path, rule) ==
  [ruleMap EXCEPT ![path] = Append(ruleMap[path], rule)]

removeRule(ruleMap, path) == [ruleMap EXCEPT ![path] = <<>>]

\* the rules handed to addRule and the trees handed to validateNode
Rules ==
  { Rule(TRUE, 0, 0, None, None, None),
    Rule(FALSE, 2, 0, None, None, None),
    Rule(FALSE, 0, 1, None, None, Some("too long")),
    Rule(FALSE, 0, 0, Some("digits"), None, None),
    Rule(FALSE, 0, 0, None, Some("notX"), None) }
RuleTrees ==
  { parseJsonContent(JObj(<< <<(<<"a">>), JVal(a)>>,
                             <<(<<"o">>), JObj(<< <<(<<"c">>), JVal(c)>> >>)>> >>),
                     <<"f", ".", "json">>) :
      a \in {Str("x"), Str("")}, c \in {Str("x"), Str("xy"), <<"number", "1">>} }

RuleCount == Len(rules[JsonLeaf]) + Len(rules[<<"f", ".", "json", ".", "o", ".", "c">>])

AddRule ==
  \E path \in RulePaths, rule \in Rules :
    /\ RuleCount < MaxRules
    /\ rules' = addRule(rules, path, rule)
    /\ call' = [fn |-> "addRule", path |-> path]
    /\ result' = None
    /\ UNCHANGED <<state, lastOp, run, iniVars, page, pending>>

RemoveRule ==
  \E path \in RulePaths :
    /\ rules' = removeRule(rules, path)
    /\ call' = [fn |-> "removeRule", path |-> path]
    /\ result' = None
    /\ UNCHANGED <<state, lastOp, run, iniVars, page, pending>>

ValidateNode ==
  \E node \in RuleTrees :
    /\ call' = [fn |-> "validateNode", node |-> node]
    /\ result' = Some(validateNode(rules, node))
    /\ UNCHANGED <<state, lastOp, run, iniVars, page, rules, pending>>

RuleNext == AddRule \/ RemoveRule \/ ValidateNode
RuleSpec == Init /\ [][RuleNext]_vars

(* ----------------------- loadFile calls that overlap -------------------- *)
\* loadFile is an async function: the call validates the file and stops at
\* `await file.text()`; when the text has been read, the rest (sanitizeInput,
\* detectFileType, parseContent, setState) runs.  The texts of two files are
\* read independently, so either may be ready first.  For INI and JSON,
\* parseContent has no asynchronous work of its own, and the rest of
\* loadFile runs in the order in which the texts became ready.
\* pending holds one entry per call, in the order of the calls:
\*   pc = "reading"  stopped at await file.text()
\*   pc = "done"     ran to the end, setState included
\*   pc = "failed"   threw (validateFile or the parser)
\* the most loadFile calls a run makes
MaxLoads == 3

LoadCall(file, pc) == [file |-> file, pc |-> pc]

\* loadFile up to its first await
loadFileCall(file) ==
  IF ~validateFile(file) THEN LoadCall(file, "failed")
  ELSE LoadCall(file, "reading")

\* loadFile from the first await on: the editor state and the call afterwards
loadFileResume(prev, entry) ==
  LET file == entry.file
      sanitizedContent == sanitizeInput(file.content)
      fileType == detectFileType(file)
      parsedContent == parseContent(sanitizedContent, fileType, file.name)
  IN IF parsedContent = None
     THEN [ state |-> prev, entry |-> LoadCall(file, "failed") ]
     ELSE [ state |-> loadFileState(prev, file, parsedContent[1]),
            entry |-> LoadCall(file, "done") ]

CallLoadFile ==
  \E file \in Files :
    /\ Len(pending) < MaxLoads
    /\ pending' = Append(pending, loadFileCall(file))
    /\ UNCHANGED <<state, lastOp, run, iniVars, call, result, page, rules>>

ResumeLoadFile ==
  \E i \in 1..Len(pending) :
    /\ pending[i].pc = "reading"
    /\ state' = loadFileResume(state, pending[i]).state
    /\ pending' = [pending EXCEPT ![i] = loadFileResume(state, pending[i]).entry]
    /\ UNCHANGED <<lastOp, run, iniVars, call, result, page, rules>>

AsyncNext == CallLoadFile \/ ResumeLoadFile
AsyncSpec == Init /\ [][AsyncNext]_vars

(* ======================= properties: unified editor =================== *)
HasFile(st) == st.currentFile # None
FileNamed(name) == CHOOSE f \in Files : f.name = name
IsMutation(op) == op.op \in {"updateNode", "addNode", "deleteNode"}
HasPath(st, path) == HasFile(st) /\ path \in NodePaths(Content(st))

\* C1: after a successful load, N mutation calls and then N undos (no undo
\* or redo among the mutations), the current tree is the tree the load
\* produced.  nMut counts the calls that changed the state, so N >= nMut.
C1_UndoAllRestoresLoadedTree ==
  (run.phase = "undo" /\ run.fromLoad /\ run.nUndo >= run.nMut)
    => (HasFile(state) /\ Content(state) = run.loaded[1])

C1_Witness ==
  /\ run.phase = "undo" /\ run.fromLoad
  /\ run.nMut = 2 /\ run.nUndo = 2
  /\ run.afterMut # run.loaded

\* C2: after N mutations, M undos and M redos with M <= N and no mutation
\* in between, the current tree is the tree that was current right after
\* the N mutations.
C2_RedoAllRestoresMutatedTree ==
  (run.phase = "redo" /\ run.nRedo = run.nUndo /\ run.nUndo <= run.nMut)
    => (HasFile(state) /\ Content(state) = run.afterMut[1])

C2_Witness ==
  /\ run.phase = "redo"
  /\ run.nMut = 2 /\ run.nUndo = 2 /\ run.nRedo = 2
  /\ run.afterMut # run.loaded

\* C3: a mutation (updateNode or addNode on a loaded file, deleteNode of a
\* path the tree has) applied at historyIndex = i leaves history equal to
\* the old history[0..i] followed by the new tree, historyIndex = i + 1 =
\* history.length - 1, isModified = true and exactly one more Change at the
\* end of changeHistory; no redo is possible afterwards.
C3_Applied ==
  /\ IsMutation(lastOp')
  /\ HasFile(state)
  /\ lastOp'.op = "deleteNode" => HasPath(state, lastOp'.path)

C3_MutationPushesSnapshot ==
  [][ C3_Applied =>
        /\ state'.history =
             Append(SubSeq(state.history, 1, state.historyIndex + 1), Content(state'))
        /\ state'.historyIndex = state.historyIndex + 1
        /\ state'.historyIndex = Len(state'.history) - 1
        /\ state'.isModified = TRUE
        /\ Len(state'.changeHistory) = Len(state.changeHistory) + 1
        /\ SubSeq(state'.changeHistory, 1, Len(state.changeHistory)) = state.changeHistory
        /\ state'.changeHistory[Len(state'.changeHistory)].path \in
             { lastOp'.path, lastOp'.path \o <<".">> \o lastOp'.key }
        /\ Len(state'.history) = state.historyIndex + 2 ]_vars

\* reached by load, mutation, undo, mutation: two changes, two snapshots
C3_Witness ==
  /\ IsMutation(lastOp)
  /\ Len(state.changeHistory) = 2
  /\ Len(state.history) = 2
  /\ state.historyIndex = 1

\* C4: undo with historyIndex > 0 decrements historyIndex by one, makes
\* history[new index] the current tree, leaves history unchanged and sets
\* isModified to false iff the new index is 0; undo with historyIndex <= 0
\* leaves the whole editor state unchanged.
C4_UndoStep ==
  [][ lastOp'.op = "undo" =>
        IF state.historyIndex > 0
        THEN /\ state'.historyIndex = state.historyIndex - 1
             /\ HasFile(state')
             /\ Content(state') = state.history[state'.historyIndex + 1]
             /\ state'.history = state.history
             /\ (state'.isModified = FALSE) <=> (state'.historyIndex = 0)
             /\ state'.changeHistory = state.changeHistory
             /\ state'.selectedNode = state.selectedNode
        ELSE state' = state ]_vars

\* an undo from index 2 to index 1
C4_Witness ==
  /\ lastOp.op = "undo"
  /\ state.historyIndex = 1
  /\ Len(state.history) = 3
  /\ state.isModified

\* C5: redo with historyIndex < history.length - 1 increments historyIndex
\* by one, makes history[new index] the current tree, leaves history
\* unchanged and sets isModified = true; redo at the end of history (the
\* no-file state included) leaves the whole editor state unchanged.
C5_RedoStep ==
  [][ lastOp'.op = "redo" =>
        IF state.historyIndex < Len(state.history) - 1
        THEN /\ state'.historyIndex = state.historyIndex + 1
             /\ HasFile(state')
             /\ Content(state') = state.history[state'.historyIndex + 1]
             /\ state'.history = state.history
             /\ state'.isModified = TRUE
             /\ state'.changeHistory = state.changeHistory
             /\ state'.selectedNode = state.selectedNode
        ELSE state' = state ]_vars

\* a redo from index 0 to index 1 of three snapshots
C5_Witness ==
  /\ lastOp.op = "redo"
  /\ state.historyIndex = 1
  /\ Len(state.history) = 3
  /\ Content(state) = state.history[2]
  /\ Content(state) # state.history[3]

\* C6: a successful loadFile, from any prior state, sets history to the
\* one-element sequence [parsed tree], historyIndex to 0, changeHistory to
\* empty, isModified to false and selectedNode to null, with
\* currentFile.content the parsed tree.
C6_ParsedTree(file) ==
  parseContent(file.content, detectFileType(file), file.name)[1]

C6_LoadResetsState ==
  [][ (lastOp'.op = "loadFile" /\ Loadable(FileNamed(lastOp'.path))) =>
        LET tree == C6_ParsedTree(FileNamed(lastOp'.path)) IN
        /\ state'.history = <<tree>>
        /\ state'.historyIndex = 0
        /\ state'.changeHistory = <<>>
        /\ state'.isModified = FALSE
        /\ state'.selectedNode = None
        /\ HasFile(state')
        /\ Content(state') = tree
        /\ state'.currentFile[1].filename = lastOp'.path ]_vars

C6_Witness ==
  /\ lastOp.op = "loadFile"
  /\ Loadable(FileNamed(lastOp.path))
  /\ HasFile(state)
  /\ state.currentFile[1].filename = lastOp.path
  /\ state.history = <<Content(state)>>

\* C7: updateNode with a path no node of the current tree has, and addNode
\* with a parentPath no node of the current tree has, leave history,
\* historyIndex, changeHistory and isModified as they were.
C7_UnknownPathIsNoOp ==
  [][ ( /\ lastOp'.op \in {"updateNode", "addNode"}
        /\ HasFile(state)
        /\ ~HasPath(state, lastOp'.path) ) =>
        /\ state'.history = state.history
        /\ state'.historyIndex = state.historyIndex
        /\ state'.changeHistory = state.changeHistory
        /\ state'.isModified = state.isModified ]_vars

\* C8: deleteNode with a path no node of the current tree has leaves the
\* entire editor state unchanged.
C8_DeleteUnknownPathIsNoOp ==
  [][ ( /\ lastOp'.op = "deleteNode"
        /\ HasFile(state)
        /\ ~HasPath(state, lastOp'.path) ) => state' = state ]_vars

\* deleteNode was called on an unedited file that has no such path, with a
\* node selected
C8_Witness ==
  /\ lastOp.op = "deleteNode"
  /\ HasFile(state)
  /\ ~HasPath(state, lastOp.path)
  /\ state.changeHistory = <<>>
  /\ state.selectedNode # None

\* C9: addNode(parentPath, key, ...) where the parent already has a child
\* with that key leaves tree, history, historyIndex and changeHistory
\* unchanged.
C9_ParentHasKey(st, parentPath, key) ==
  /\ HasPath(st, parentPath)
  /\ LET parent == findNodeByPath(Content(st), parentPath)[1] IN
     \E i \in 1..Len(parent.children) : parent.children[i].key = key

C9_DuplicateKeyRejected ==
  [][ ( /\ lastOp'.op = "addNode"
        /\ C9_ParentHasKey(state, lastOp'.path, lastOp'.key) ) =>
        /\ state'.currentFile = state.currentFile
        /\ state'.history = state.history
        /\ state'.historyIndex = state.historyIndex
        /\ state'.changeHistory = state.changeHistory ]_vars

\* the number of nodes of a tree whose path is `path`
RECURSIVE CountPath(_, _), CountPathIn(_, _)
CountPathIn(children, path) ==
  IF children = <<>> THEN 0
  ELSE CountPath(Head(children), path) + CountPathIn(Tail(children), path)

CountPath(node, path) ==
  (IF node.path = path THEN 1 ELSE 0) + CountPathIn(node.children, path)

\* C11: starting from a loaded tree with pairwise distinct paths, after any
\* sequence of addNode, deleteNode, updateNode, undo and redo no two nodes
\* of the current tree have the same path.
C11_PathsAreUnique ==
  HasFile(state) =>
    \A p \in NodePaths(Content(state)) : CountPath(Content(state), p) = 1

\* all nodes of a tree
RECURSIVE Nodes(_)
Nodes(node) ==
  {node} \cup UNION { Nodes(node.children[i]) : i \in 1..Len(node.children) }

Leaves(node) == { n \in Nodes(node) : Len(n.children) = 0 }

C13_RevertClearsFlagAndLog ==
  [][ ( /\ lastOp'.op = "updateNode"
        /\ HasPath(state, lastOp'.path)
        /\ LET n == findNodeByPath(Content(state), lastOp'.path)[1] IN
             /\ Len(n.children) = 0
             /\ n.metadata.isModified
             /\ n.metadata.originalValue = lastOp'.value ) =>
        /\ ~findNodeByPath(Content(state'), lastOp'.path)[1].metadata.isModified
        /\ \A i \in 1..Len(state'.changeHistory) :
             state'.changeHistory[i].path # lastOp'.path ]_vars

\* C14: a loadFile call that fails, because validateFile rejects the file
\* or because parsing throws, leaves the editor state as it was; and a file
\* rejected by validateFile is never passed to a parser.
C14_LoadFails(file) ==
  \/ ~validateFile(file)
  \/ parseContent(sanitizeInput(file.content), detectFileType(file),
                  file.name) = None

C14_FailedLoadKeepsState ==
  [][ lastOp'.op = "loadFile" =>
        LET file == FileNamed(lastOp'.path) IN
        /\ C14_LoadFails(file) => state' = state
        /\ ~validateFile(file) =>
             \A i \in 1..Len(lastOp'.calls) : lastOp'.calls[i] # "parseContent"
      ]_vars

\* loadFile of a file validateFile rejects, called on an edited document
C14_Witness ==
  /\ lastOp.op = "loadFile"
  /\ ~validateFile(FileNamed(lastOp.path))
  /\ HasFile(state)
  /\ state.isModified
  /\ state.changeHistory # <<>>

\* loadFile of a file whose parse throws, called on an edited document
C14_WitnessParse ==
  /\ lastOp.op = "loadFile"
  /\ validateFile(FileNamed(lastOp.path))
  /\ C14_LoadFails(FileNamed(lastOp.path))
  /\ HasFile(state)
  /\ state.isModified

\* C21 (as stated): deleteNode(path) called while selectedNode = path sets
\* selectedNode to null; called while selectedNode is anything else it
\* leaves selectedNode unchanged.
C21_DeleteClearsSelection ==
  [][ lastOp'.op = "deleteNode" =>
        state'.selectedNode =
          IF state.selectedNode = Some(lastOp'.path) THEN None
          ELSE state.selectedNode ]_vars

\* C21 (amended): deleteNode(path) of a node of the current tree, called
\* while selectedNode = path, sets selectedNode to null; called while
\* selectedNode is anything else it leaves selectedNode unchanged.  A
\* deleteNode that finds no node with that path changes nothing.
C21_DeleteOfNodeClearsSelection ==
  [][ lastOp'.op = "deleteNode" =>
        IF HasPath(state, lastOp'.path)
        THEN state'.selectedNode =
               IF state.selectedNode = Some(lastOp'.path) THEN None
               ELSE state.selectedNode
        ELSE state' = state ]_vars

\* the selected node has just been deleted
C21_Witness ==
  /\ lastOp.op = "deleteNode"
  /\ lastOp.selected = Some(lastOp.path)
  /\ state.selectedNode = None
  /\ state.changeHistory # <<>>
  /\ state.changeHistory[Len(state.changeHistory)].type = "delete"
  /\ state.changeHistory[Len(state.changeHistory)].path = lastOp.path

\* another node than the selected one has just been deleted
C21_WitnessOther ==
  /\ lastOp.op = "deleteNode"
  /\ lastOp.selected # None
  /\ lastOp.selected # Some(lastOp.path)
  /\ state.selectedNode = lastOp.selected
  /\ state.changeHistory # <<>>
  /\ state.changeHistory[Len(state.changeHistory)].path = lastOp.path

\* a node without its children: what "unchanged" compares
C22_Own(n) ==
  [ path |-> n.path, key |-> n.key, value |-> n.value, type |-> n.type,
    hasChildren |-> n.hasChildren, metadata |-> n.metadata ]

\* C22: after deleteNode(p) where p is the path of a node of the current
\* tree (the root included), the current tree has no node with path p and
\* none of that node's descendants, and every other node is still present
\* and unchanged.
C22_DeleteRemovesSubtree ==
  [][ (lastOp'.op = "deleteNode" /\ HasPath(state, lastOp'.path)) =>
        LET before == Nodes(Content(state))
            after == Nodes(Content(state'))
            gone == Nodes(findNodeByPath(Content(state), lastOp'.path)[1])
        IN /\ \A n \in after : n.path # lastOp'.path
           /\ \A g \in gone : \A n \in after : n.path # g.path
           /\ { C22_Own(n) : n \in after } =
                { C22_Own(n) : n \in before \ gone } ]_vars

\* the same statement for every node but the root
C22_DeleteBelowRootRemovesSubtree ==
  [][ (lastOp'.op = "deleteNode" /\ HasPath(state, lastOp'.path)
         /\ lastOp'.path # Content(state).path) =>
        LET before == Nodes(Content(state))
            after == Nodes(Content(state'))
            gone == Nodes(findNodeByPath(Content(state), lastOp'.path)[1])
        IN /\ \A g \in gone : \A n \in after : n.path # g.path
           /\ { C22_Own(n) : n \in after } =
                { C22_Own(n) : n \in before \ gone } ]_vars

\* C23: every node of the current tree is either a container (children
\* defined, value null) or a leaf (no children); no sequence of addNode and
\* updateNode calls produces a node with both a non-null value and children.
C23_ContainerOrLeaf ==
  HasFile(state) =>
    \A n \in Nodes(Content(state)) : ~(n.hasChildren /\ n.value # Null)

\* C24: between one loadFile/reset and the next, changeHistory is
\* append-only: a mutation that is applied appends one record at the end
\* and leaves the earlier records as they were, and undo and redo (like
\* every call that is not a load or a reset) leave changeHistory unchanged.
C24_Applied ==
  /\ IsMutation(lastOp')
  /\ HasFile(state)
  /\ lastOp'.op = "deleteNode" => HasPath(state, lastOp'.path)

C24_ChangeLogIsAppendOnly ==
  [][ /\ C24_Applied =>
           /\ Len(state'.changeHistory) = Len(state.changeHistory) + 1
           /\ SubSeq(state'.changeHistory, 1, Len(state.changeHistory))
                = state.changeHistory
      /\ (IsMutation(lastOp') /\ ~C24_Applied) =>
           state'.changeHistory = state.changeHistory
      /\ lastOp'.op \in {"undo", "redo", "selectNode"} =>
           state'.changeHistory = state.changeHistory ]_vars

\* an undo that moved back over a mutation, with two records in the log
C24_Witness ==
  /\ lastOp.op = "undo"
  /\ Len(state.changeHistory) = 2
  /\ state.historyIndex < Len(state.history) - 1
  /\ state.changeHistory[1] # state.changeHistory[2]

\* C27: in every reachable state, if a file is loaded then
\* 0 <= historyIndex < history.length and currentFile.content is exactly
\* history[historyIndex]; if no file is loaded then history is empty and
\* historyIndex = -1.
C27_HistoryIndexPointsAtContent ==
  IF HasFile(state)
  THEN /\ 0 <= state.historyIndex
       /\ state.historyIndex < Len(state.history)
       /\ Content(state) = state.history[state.historyIndex + 1]
  ELSE /\ state.history = <<>>
       /\ state.historyIndex = -1

\* two mutations, then one undo: the index is in the middle of a history of
\* three different trees
C27_Witness ==
  /\ HasFile(state)
  /\ lastOp.op = "undo"
  /\ Len(state.history) = 3
  /\ state.historyIndex = 1
  /\ state.history[1] # state.history[2]
  /\ state.history[2] # state.history[3]

\* back to no file by reset, after a file had been edited
C27_WitnessReset ==
  /\ ~HasFile(state)
  /\ lastOp.op = "reset"

\* C30: where selectNode is only ever called with null or the path of a
\* node of the current tree, selectedNode is in every reachable state null
\* or the path of a node present in the current tree, also after deleteNode
\* of an ancestor of the selected node and after undo/redo move to a
\* snapshot that lacks the selected node.
C30_SelectionIsInTree ==
  state.selectedNode = None \/ state.selectedNode[1] \in CurrentPaths(state)

\* the same, undo and redo apart: the selection right after a deleteNode
C30_SelectionIsInTreeAfterDelete ==
  lastOp.op = "deleteNode" => C30_SelectionIsInTree

\* the same, deleteNode apart: the selection right after an undo or a redo
\* of a history without deletions
C30_SelectionIsInTreeAfterUndoRedo ==
  (/\ lastOp.op \in {"undo", "redo"}
   /\ \A i \in 1..Len(state.changeHistory) :
        state.changeHistory[i].type # "delete")
    => C30_SelectionIsInTree

\* C29: if loadFile(A) is called and loadFile(B) is called before the first
\* call has finished, then once both calls have completed the editor's
\* current file and history are those of B, the most recently requested
\* file, whichever of the two finished first.
C29_LastRequestedFileWins ==
  \A i \in 1..Len(pending) : \A j \in (i + 1)..Len(pending) :
    (/\ pending[i].pc = "done"
     /\ pending[j].pc = "done"
     /\ \A k \in 1..Len(pending) : pending[k].pc # "reading"
     /\ \A k \in (j + 1)..Len(pending) : pending[k].pc # "done")
      => /\ HasFile(state)
         /\ state.currentFile[1].filename = pending[j].file.name
         /\ state.history = << C6_ParsedTree(pending[j].file) >>

(* ========================= properties: INI editor ===================== *)
IniHasSection(st, name) ==
  /\ st.data # None
  /\ \E i \in 1..Len(st.data[1].sections) : st.data[1].sections[i].name = name

\* the first section with the name (the one addKey looks the key up in)
\* has the key
IniSectionHasKey(st, name, key) ==
  /\ IniHasSection(st, name)
  /\ LET sections == st.data[1].sections
         first == CHOOSE i \in 1..Len(sections) :
                    /\ sections[i].name = name
                    /\ \A j \in 1..(i - 1) : sections[j].name # name
     IN \E j \in 1..Len(sections[first].keys) : sections[first].keys[j].key = key

\* C10: addSection with the name of an existing section, addKey with a key
\* the target section already contains and addKey into a section that does
\* not exist return the previous state: data, changes, isDirty, history and
\* historyIndex are as before.
C10_Rejected ==
  \/ /\ iniLastOp'.op = "addSection"
     /\ IniHasSection(iniState, iniLastOp'.section)
  \/ /\ iniLastOp'.op = "addKey"
     /\ IniSectionHasKey(iniState, iniLastOp'.section, iniLastOp'.key)
  \/ /\ iniLastOp'.op = "addKey"
     /\ iniState.data # None
     /\ ~IniHasSection(iniState, iniLastOp'.section)

C10_IniDuplicateAddIsNoOp ==
  [][ C10_Rejected =>
        /\ iniState'.data = iniState.data
        /\ iniState'.changes = iniState.changes
        /\ iniState'.isDirty = iniState.isDirty
        /\ iniState'.history = iniState.history
        /\ iniState'.historyIndex = iniState.historyIndex
        /\ iniState' = iniState ]_vars

\* addKey of a key its section has was called on an edited file, and the
\* change log does not end with an "add"
C10_Witness ==
  /\ iniLastOp.op = "addKey"
  /\ IniSectionHasKey(iniState, iniLastOp.section, iniLastOp.key)
  /\ iniState.isDirty
  /\ Len(iniState.history) = 2
  /\ iniState.changes # <<>>
  /\ iniState.changes[Len(iniState.changes)].type # "add"

\* the sections, keys and values of an IniData
C28_Shape(data) ==
  [ i \in 1..Len(data.sections) |->
      [ name |-> data.sections[i].name,
        keys |-> [ j \in 1..Len(data.sections[i].keys) |->
                     << data.sections[i].keys[j].key,
                        data.sections[i].keys[j].value >> ] ] ]

\* C28: after any sequence of updateKey, addSection, deleteSection,
\* renameSection, addKey, deleteKey, renameKey, undo and redo, whenever the
\* current data differs from the data the last load produced (history[0])
\* in its sections, keys or values, isDirty is true.
C28_DirtyWhenDataDiffers ==
  (/\ iniState.data # None
   /\ Len(iniState.history) > 0
   /\ C28_Shape(IniData(iniState)) # C28_Shape(iniState.history[1]))
    => iniState.isDirty

\* the same, right after one of the seven mutating handlers
C28_DirtyWhenDataDiffersAfterMutation ==
  iniLastOp.op \notin {"undo", "redo"} => C28_DirtyWhenDataDiffers

\* the same, right after an undo or a redo
C28_DirtyWhenDataDiffersAfterUndoRedo ==
  iniLastOp.op \in {"undo", "redo"} => C28_DirtyWhenDataDiffers

(* ========================= properties: utilities ====================== *)
C15_IsCritical(e) ==
  \/ e.type \in {"syntax", "duplicate_key"}
  \/ (e.type = "invalid_value" /\ e.severity = "error")

\* C15: whenever the validation summary handed to the toolbar has a
\* non-empty criticalIssues list (which getValidationSummary produces for
\* any findings list with a syntax finding, a duplicate_key finding or an
\* error-severity invalid_value finding), Save is disabled whatever hasData,
\* isDirty and isSharedFile are; findings of severity warning alone never
\* disable Save.
C15_CriticalIssuesDisableSave ==
  (call.fn = "Toolbar" /\ result # None) =>
    LET summary == result[1].validationSummary
        n == Len(call.errors)
    IN /\ (Len(summary.criticalIssues) > 0) => ~result[1].canSave
       /\ (\E i \in 1..n : C15_IsCritical(call.errors[i]))
            => Len(summary.criticalIssues) > 0
       /\ (\A i \in 1..n : call.errors[i].severity = "warning")
            => (result[1].canSave <=>
                  (call.hasData /\ (call.isDirty \/ call.isSharedFile)))

\* a dirty document with a duplicate_key finding after a warning
C15_Witness ==
  /\ call.fn = "Toolbar"
  /\ result # None
  /\ call.hasData /\ call.isDirty
  /\ call.errors = <<Finding("reserved_word", "warning"),
                     Finding("duplicate_key", "error")>>
  /\ ~result[1].canSave

\* C16: for every document with fileType in {ini, json, xml}, decoding
\* (parseShareUrl) the URL produced by encoding it (generateShareUrl) yields
\* an envelope whose content and filename are exactly the document's
\* serialized content and filename.
C16_ShareRoundTrip ==
  (call.fn = "handleShare" /\ call.editor = "unified" /\ result # None) =>
    /\ result[1].url # None
    /\ result[1].decoded # None =>
         LET decoded == result[1].decoded[1] IN
         /\ ~decoded.throws
         /\ decoded.value # None
         /\ decoded.value[1].content = call.shareData.content
         /\ decoded.value[1].filename = call.shareData.filename

\* the payload of a config parameter cannot be imported
C17_Broken(config) ==
  /\ config # None
  /\ LET parsed == parseShareUrl([config |-> config]) IN
     \/ parsed.throws
     \/ ~validateShareData(parsed.value[1])
     \/ LET file == SyntheticFile(parsed.value[1]) IN
        \/ ~validateFile(file)
        \/ parseContent(file.content, detectFileType(file), file.name) = None

\* C17: when the page is opened with a config parameter whose payload
\* cannot be imported, the startup import flow ends with an error shown to
\* the user and with the config parameter removed from the URL.
C17_BrokenLinkIsReportedAndCleared ==
  (page.pc = "done" /\ C17_Broken(page.opened)) =>
    (page.error # None /\ page.url.config = None)

\* C18: loadFile's pre-flight validation accepts every file of size at most
\* 10 MiB whose name ends in one of the extensions .ini, .json, .xml, .cfg,
\* .conf, .config, .txt.
C18_SevenExtensionsAccepted ==
  ( /\ call.fn = "validateFile"
    /\ result # None
    /\ call.file.size <= 10 * 1024 * 1024
    /\ call.file.name[Len(call.file.name) - 1] = "."
    /\ call.file.name[Len(call.file.name)] \in
         {"ini", "json", "xml", "cfg", "conf", "config", "txt"} )
    => result[1].isValid

\* the number of key=value lines for `key` under the header `section`
RECURSIVE C19_KeyLines(_, _, _, _)
C19_KeyLines(lines, current, section, key) ==
  IF lines = <<>> THEN 0
  ELSE LET line == Head(lines) IN
       IF line.kind = "section"
       THEN C19_KeyLines(Tail(lines), line.name, section, key)
       ELSE (IF current = section /\ line.name = key THEN 1 ELSE 0)
            + C19_KeyLines(Tail(lines), current, section, key)

\* C19: parseIniFile applied to INI text in which the same key appears twice
\* under one section reports exactly one finding of type duplicate_key and
\* severity error for that section and key.
C19_DuplicateKeyReportedOnce ==
  (call.fn = "parseIniFile" /\ result # None) =>
    \A section \in {"s", "t"}, key \in {"k", "j"} :
      C19_KeyLines(call.lines, "", section, key) = 2 =>
        Len(SelectSeq(result[1].validationErrors,
                      LAMBDA e : /\ e.type = "duplicate_key"
                                 /\ e.severity = "error"
                                 /\ e.section = section
                                 /\ e.key = key)) = 1

\* a tree reduced to path, key, value and type of its nodes
RECURSIVE C20_Shape(_)
C20_Shape(node) ==
  [ path |-> node.path, key |-> node.key, value |-> node.value,
    type |-> node.type,
    children |-> [i \in 1..Len(node.children) |-> C20_Shape(node.children[i])] ]

\* C20: for every valid JSON or INI input (XML is not part of the model),
\* parsing it, serializing the tree with the same format's serializer and
\* parsing the output again with the same filename yields a tree whose nodes
\* agree with the first tree's in path, key, value and type, node for node.
C20_ParseSerializeParse ==
  (call.fn = "roundTrip" /\ result # None /\ result[1].second # None) =>
    C20_Shape(result[1].second[1]) = C20_Shape(result[1].first)

\* a key of the form [n]
C25_BracketIndexed(key) == ParseIndex(key) >= 0

\* what the claim says processNode returns for a container with children
C25_AsClaimed(node, out) ==
  IF \A i \in 1..Len(node.children) : C25_BracketIndexed(node.children[i].key)
  THEN /\ out.t = "arr"
       /\ \A i \in 1..Len(node.children) :
            LET index == ParseIndex(node.children[i].key) IN
            /\ index < Len(out.kids)
            /\ out.kids[index + 1][2] = jsonProcessNode(node.children[i])
  ELSE /\ out.t = "obj"
       /\ \A i \in 1..Len(node.children) :
            /\ \E j \in 1..Len(out.kids) : out.kids[j][1] = node.children[i].key
            /\ GetEntry(out.kids, node.children[i].key)
                 = jsonProcessNode(node.children[i])

\* C25: serializeJsonContent emits a JSON array for a container exactly
\* when all of its children's keys are bracket-indexed ([n]), with the
\* elements in numeric index order, and a JSON object for every other
\* container, a container that mixes bracket-indexed and named children
\* included.  (Stated for the containers that have children.)
C25_ArrayIffAllBracketIndexed ==
  (/\ call.fn = "roundTrip" /\ call.fileType = "json"
   /\ result # None /\ result[1].text # None
   /\ result[1].first.hasChildren /\ Len(result[1].first.children) > 0)
    => C25_AsClaimed(result[1].first, result[1].text[1].doc)

\* the same for the containers whose children are all named or all
\* bracket-indexed
C25_ArrayIffAllBracketIndexedUnmixed ==
  (/\ call.fn = "roundTrip" /\ call.fileType = "json"
   /\ result # None /\ result[1].text # None
   /\ result[1].first.hasChildren /\ Len(result[1].first.children) > 0
   /\ \/ \A i \in 1..Len(result[1].first.children) :
            StartsWithBracket(result[1].first.children[i].key)
      \/ \A i \in 1..Len(result[1].first.children) :
            ~StartsWithBracket(result[1].first.children[i].key))
    => C25_AsClaimed(result[1].first, result[1].text[1].doc)

\* the errors reported for one path, in the order of the list
C26_ErrorsAt(errors, path) == SelectSeq(errors, LAMBDA e : e.path = path)

\* the error of the first rule, in registration order, that the value fails
RECURSIVE C26_FirstFailure(_, _)
C26_FirstFailure(node, nodeRules) ==
  IF nodeRules = <<>> THEN None
  ELSE LET error == validateValue(node.value, Head(nodeRules), node.path) IN
       IF error # None THEN error ELSE C26_FirstFailure(node, Tail(nodeRules))

\* C26: validateNode reports at most one error per node, that of the first
\* failing rule in the order the rules were registered for the node's path
\* with addRule, while the errors of different nodes (the node and all its
\* descendants) are all reported.
C26_FirstFailingRulePerNode ==
  (call.fn = "validateNode" /\ result # None) =>
    \A n \in Nodes(call.node) :
      LET first == C26_FirstFailure(n, RulesFor(rules, n.path)) IN
      C26_ErrorsAt(result[1], n.path) =
        IF first = None THEN <<>> ELSE <<first[1]>>

\* with at most one rule registered per path the claim holds
C26_FirstFailingRulePerNodeOneRule ==
  (\A p \in RulePaths : Len(rules[p]) <= 1) => C26_FirstFailingRulePerNode

====
